---- MODULE Spec2Model ----
(***************************************************************************)
(* Release-Notifier: the per-Service poll cycle (Service.query), the       *)
(* Tracker loop (Monitor.track) and the notification senders               *)
(* (GotifySlice.send, SlackSlice.send, WebHookSlice.send).                 *)
(*                                                                         *)
(* A Go string is a sequence of one-character strings.  Go slice index i   *)
(* is sequence index i+1.                                                  *)
(***************************************************************************)
EXTENDS Integers, Sequences, FiniteSets, TLC

\* ------------------------------------------------------------------------
\* strings (package strings of the Go standard library, as the code calls it)
\* ------------------------------------------------------------------------

\* t occurs in s at position i (1-based).
HasPrefixAt(s, t, i) ==
    /\ i >= 1
    /\ i + Len(t) - 1 <= Len(s)
    /\ \A k \in 1..Len(t) : s[i + k - 1] = t[k]

MinOf(S) == CHOOSE x \in S : \A y \in S : x <= y

\* The least element of a set of positions, 0 for the empty set.
FirstOf(S) == IF S = {} THEN 0 ELSE MinOf(S)

\* strings.Index from position i on: the first position >= i where t occurs, 0 if none.
IndexFrom(s, t, i) ==
    FirstOf({ j \in i..(Len(s) - Len(t) + 1) : HasPrefixAt(s, t, j) })

\* strings.Contains(s, t)
Contains(s, t) == IndexFrom(s, t, 1) # 0

RECURSIVE SplitFrom(_, _, _)
SplitFrom(s, sep, i) ==
    LET Cut(j) == IF j = 0 THEN << SubSeq(s, i, Len(s)) >>
                  ELSE << SubSeq(s, i, j - 1) >> \o SplitFrom(s, sep, j + Len(sep))
    IN  Cut(IndexFrom(s, sep, i))

\* strings.Split(s, sep) for a non-empty sep: the pieces between the
\* non-overlapping occurrences of sep, left to right.
Split(s, sep) == SplitFrom(s, sep, 1)

\* strings.SplitN(s, sep, n) for n >= 1: at most n pieces, the last one unsplit.
RECURSIVE SplitNFrom(_, _, _, _)
SplitNFrom(s, sep, i, n) ==
    LET Cut(j) == IF n <= 1 \/ j = 0 THEN << SubSeq(s, i, Len(s)) >>
                  ELSE << SubSeq(s, i, j - 1) >>
                           \o SplitNFrom(s, sep, j + Len(sep), n - 1)
    IN  Cut(IndexFrom(s, sep, i))

SplitN(s, sep, n) == SplitNFrom(s, sep, 1, n)

RECURSIVE ReplaceFrom(_, _, _, _)
ReplaceFrom(s, old, new, i) ==
    LET Cut(j) == IF j = 0 THEN SubSeq(s, i, Len(s))
                  ELSE SubSeq(s, i, j - 1) \o new
                           \o ReplaceFrom(s, old, new, j + Len(old))
    IN  Cut(IndexFrom(s, old, i))

\* strings.ReplaceAll(s, old, new) for a non-empty old.
ReplaceAll(s, old, new) == ReplaceFrom(s, old, new, 1)

Digits == {"0", "1", "2", "3", "4", "5", "6", "7", "8", "9"}

DigitVal(c) ==
    CASE c = "0" -> 0 [] c = "1" -> 1 [] c = "2" -> 2 [] c = "3" -> 3 [] c = "4" -> 4
      [] c = "5" -> 5 [] c = "6" -> 6 [] c = "7" -> 7 [] c = "8" -> 8 [] OTHER -> 9

\* s is a non-empty string of decimal digits.
AllDigits(d) == Len(d) > 0 /\ \A k \in 1..Len(d) : d[k] \in Digits

\* strconv.ParseInt(s, 10, 64) succeeds: an optional sign and at least one digit.
IsInt(s) ==
    AllDigits(IF Len(s) > 0 /\ s[1] \in {"+", "-"} THEN Tail(s) ELSE s)

RECURSIVE DecVal(_)
DecVal(d) == IF Len(d) = 0 THEN 0
             ELSE 10 * DecVal(SubSeq(d, 1, Len(d) - 1)) + DigitVal(d[Len(d)])

\* The value strconv.ParseInt returns for a string IsInt accepts.
IntVal(s) ==
    IF Len(s) > 0 /\ s[1] = "-" THEN 0 - DecVal(Tail(s))
    ELSE IF Len(s) > 0 /\ s[1] = "+" THEN DecVal(Tail(s))
    ELSE DecVal(s)

\* ------------------------------------------------------------------------
\* semantic versions (github.com/coreos/go-semver, as Service.query calls it)
\* ------------------------------------------------------------------------

\* splitOff(&input, delim): <<what stays in input, what is split off>>.
SplitOff(input, delim) ==
    LET Off(parts) == IF Len(parts) = 2 THEN << parts[1], parts[2] >>
                      ELSE << input, << >> >>
    IN  Off(SplitN(input, delim, 2))

\* validateIdentifier: every dot-separated part is non-empty and of [0-9A-Za-z-].
IdentChars == Digits \cup {"a", "b", "v", "-"}

ValidIdentifier(id) ==
    LET Valid(parts) ==
            \A n \in 1..Len(parts) :
                /\ Len(parts[n]) > 0
                /\ \A k \in 1..Len(parts[n]) : parts[n][k] \in IdentChars
    IN  id = << >> \/ Valid(Split(id, <<".">>))

\* What NewVersion cuts the string into: the metadata after "+", the
\* pre-release after "-", and the dotted parts.
SemverParts(version) ==
    LET Dotted(pr, meta) ==
            [dot |-> SplitN(pr[1], <<".">>, 3), pre |-> pr[2], meta |-> meta]
        Pre(m) == Dotted(SplitOff(m[1], <<"-">>), m[2])
    IN  Pre(SplitOff(version, <<"+">>))

\* semver.NewVersion(version) returns no error.
SemverOK(version) ==
    LET OK(p) == /\ Len(p.dot) = 3
                 /\ ValidIdentifier(p.pre)
                 /\ ValidIdentifier(p.meta)
                 /\ \A k \in 1..3 : IsInt(p.dot[k])
    IN  OK(SemverParts(version))

\* The Version semver.NewVersion builds from a string SemverOK accepts.
SemverOf(version) ==
    LET Of(p) == [Major |-> IntVal(p.dot[1]), Minor |-> IntVal(p.dot[2]),
                  Patch |-> IntVal(p.dot[3]), PreRelease |-> p.pre]
    IN  Of(SemverParts(version))

Cmp(a, b) == IF a < b THEN 0 - 1 ELSE IF a > b THEN 1 ELSE 0

\* recursivePreReleaseCompare on identifier lists whose identifiers are numeric.
RECURSIVE PreReleaseSliceCompare(_, _)
PreReleaseSliceCompare(a, b) ==
    LET Continue(c) == IF c # 0 THEN c ELSE PreReleaseSliceCompare(Tail(a), Tail(b))
    IN  IF Len(a) = 0 THEN (IF Len(b) > 0 THEN 0 - 1 ELSE 0)
        ELSE IF Len(b) = 0 THEN 1
        ELSE Continue(IF IsInt(a[1]) /\ IsInt(b[1])
                      THEN Cmp(IntVal(a[1]), IntVal(b[1]))
                      ELSE IF a[1] = b[1] THEN 0
                      ELSE IF IsInt(a[1]) THEN 0 - 1 ELSE 1)

PreReleaseCompare(a, b) ==
    IF Len(a) = 0 /\ Len(b) > 0 THEN 1
    ELSE IF Len(b) = 0 /\ Len(a) > 0 THEN 0 - 1
    ELSE PreReleaseSliceCompare(IF a = << >> THEN << >> ELSE Split(a, <<".">>),
                                IF b = << >> THEN << >> ELSE Split(b, <<".">>))

\* Version.Compare
SemverCompare(a, b) ==
    IF a.Major # b.Major THEN Cmp(a.Major, b.Major)
    ELSE IF a.Minor # b.Minor THEN Cmp(a.Minor, b.Minor)
    ELSE IF a.Patch # b.Patch THEN Cmp(a.Patch, b.Patch)
    ELSE PreReleaseCompare(a.PreRelease, b.PreRelease)

\* Version.LessThan with the comparison turned round: C6 fails for it.
LessThanFlipped(a, b) == SemverCompare(a, b) > 0

\* Version.LessThan
LessThan(a, b) == SemverCompare(a, b) < 0

\* ------------------------------------------------------------------------
\* regular expressions (package regexp, as the code calls it).  The dialect
\* is the part of RE2 the configurations use: literals, ".", "\d", "\c",
\* "[...]" with single characters and the range 0-9, the postfix operators
\* "+" and "*" on one character, "^" first, "$" last, and capture groups
\* that are not nested and not repeated.
\* ------------------------------------------------------------------------

AnyChar == [any |-> TRUE, set |-> {}]
OneOf(cs) == [any |-> FALSE, set |-> cs]
InClass(c, cls) == cls.any \/ c \in cls.set

\* The characters of the class body p[i..j] (between "[" and "]").
RECURSIVE ClassSet(_, _, _)
ClassSet(p, i, j) ==
    IF i > j THEN {}
    ELSE IF i + 2 <= j /\ p[i + 1] = "-" /\ p[i] = "0" /\ p[i + 2] = "9"
         THEN Digits \cup ClassSet(p, i + 3, j)
    ELSE {p[i]} \cup ClassSet(p, i + 1, j)

ParseStart ==
    [ok |-> TRUE, atoms |-> << >>, groups |-> << >>, open |-> 0,
     canRepeat |-> FALSE, anchS |-> FALSE, anchE |-> FALSE]

PushAtom(st, cls) ==
    [st EXCEPT !.atoms = Append(@, [cls |-> cls, q |-> "1"]), !.canRepeat = TRUE]

\* One step of regexp/syntax.Parse at position i of the pattern p: the
\* position to go on from and the parse state, ok = FALSE when the pattern is
\* rejected here (unmatched parenthesis, repetition operator without
\* argument, trailing backslash, unclosed class).
ParseStep(p, i, st) ==
    LET Go(next, st1) == [next |-> next, st |-> st1]
        Reject == Go(Len(p) + 1, [st EXCEPT !.ok = FALSE])
        Class(j) == IF j = 0 THEN Reject
                    ELSE Go(j + 1, PushAtom(st, OneOf(ClassSet(p, i + 1, j - 1))))
    IN  CASE p[i] = "^" /\ i = 1 -> Go(i + 1, [st EXCEPT !.anchS = TRUE])
          [] p[i] = "$" /\ i = Len(p) -> Go(i + 1, [st EXCEPT !.anchE = TRUE])
          [] p[i] = "(" ->
               IF st.open # 0 THEN Reject
               ELSE Go(i + 1, [st EXCEPT !.open = Len(st.atoms) + 1,
                                         !.canRepeat = FALSE])
          [] p[i] = ")" ->
               IF st.open = 0 THEN Reject
               ELSE Go(i + 1,
                       [st EXCEPT !.groups = Append(@, [s |-> st.open,
                                                        e |-> Len(st.atoms)]),
                                  !.open = 0, !.canRepeat = FALSE])
          [] p[i] \in {"+", "*"} ->
               IF ~st.canRepeat THEN Reject
               ELSE Go(i + 1, [st EXCEPT !.atoms[Len(st.atoms)].q = p[i],
                                         !.canRepeat = FALSE])
          [] p[i] = "\\" ->
               IF i = Len(p) THEN Reject
               ELSE Go(i + 2, PushAtom(st, IF p[i + 1] = "d" THEN OneOf(Digits)
                                           ELSE OneOf({p[i + 1]})))
          [] p[i] = "[" -> Class(IndexFrom(p, <<"]">>, i + 2))
          [] p[i] = "." -> Go(i + 1, PushAtom(st, AnyChar))
          [] OTHER -> Go(i + 1, PushAtom(st, OneOf({p[i]})))

\* regexp/syntax.Parse: left to right over the pattern p from position i.
RECURSIVE ParseFrom(_, _, _)
ParseFrom(p, i, st) ==
    LET Go(g) == ParseFrom(p, g.next, g.st)
    IN  IF i > Len(p) THEN [st EXCEPT !.ok = (st.ok /\ st.open = 0)]
        ELSE Go(ParseStep(p, i, st))

\* regexp.Compile(p); regexp.MustCompile panics when ok is FALSE.
Compile(p) == ParseFrom(p, 1, ParseStart)

\* The number of consecutive characters of class cls in s from position i.
Run(s, i, cls) ==
    LET Upto(stop) == IF stop = 0 THEN Len(s) + 1 - i ELSE stop - i
    IN  Upto(FirstOf({ j \in i..Len(s) : ~InClass(s[j], cls) }))

\* The preferred (leftmost-first, greedy) match of atoms k.. of re at position
\* i of s: the positions before each of these atoms and after the last one,
\* or << >> when there is no match.
RECURSIVE MatchAt(_, _, _, _)
RECURSIVE TryRep(_, _, _, _, _, _)
MatchAt(re, k, s, i) ==
    LET Rep(q, r) ==
            TryRep(re, k, s, i, IF q = "1" /\ r >= 1 THEN 1 ELSE r,
                   IF q = "*" THEN 0 ELSE 1)
    IN  IF k > Len(re.atoms)
        THEN IF re.anchE /\ i # Len(s) + 1 THEN << >> ELSE << i >>
        ELSE Rep(re.atoms[k].q, Run(s, i, re.atoms[k].cls))

TryRep(re, k, s, i, n, min) ==
    LET Or(rest) == IF rest # << >> THEN << i >> \o rest
                    ELSE TryRep(re, k, s, i, n - 1, min)
    IN  IF n < min THEN << >> ELSE Or(MatchAt(re, k + 1, s, i + n))

\* The leftmost match starting at a position >= pos: << >> or the positions
\* MatchAt gives for it.
FirstMatch(re, s, pos) ==
    LET At(start) == IF start = 0 THEN << >> ELSE MatchAt(re, 1, s, start)
    IN  At(FirstOf({ j \in pos..(IF re.anchS THEN 1 ELSE Len(s) + 1) :
                       MatchAt(re, 1, s, j) # << >> }))

\* Regexp.MatchString(s)
MatchString(re, s) == FirstMatch(re, s, 1) # << >>

\* Regexp.FindStringSubmatch(s): << >> (nil) or <<whole match, group 1, ...>>.
FindStringSubmatch(re, s) ==
    LET Sub(m) ==
            IF m = << >> THEN << >>
            ELSE << SubSeq(s, m[1], m[Len(m)] - 1) >> \o
                 [g \in 1..Len(re.groups) |->
                     SubSeq(s, m[re.groups[g].s], m[re.groups[g].e + 1] - 1)]
    IN  Sub(FirstMatch(re, s, 1))

\* Regexp.FindAllString(s, -1): the successive non-overlapping matches; an
\* empty match right after the previous match is not delivered.
RECURSIVE AllMatches(_, _, _, _)
AllMatches(re, s, pos, prevMatchEnd) ==
    LET Take(b, e) ==
            (IF e = b /\ b = prevMatchEnd THEN << >> ELSE << SubSeq(s, b, e - 1) >>)
                \o AllMatches(re, s, IF e = b THEN e + 1 ELSE e, e)
        From(m) == IF m = << >> THEN << >> ELSE Take(m[1], m[Len(m)])
    IN  IF pos > Len(s) + 1 THEN << >> ELSE From(FirstMatch(re, s, pos))

FindAllString(re, s) == AllMatches(re, s, 1, 0)

\* ------------------------------------------------------------------------
\* the URL-command engine (service.go)
\* ------------------------------------------------------------------------

\* What a command returns: the text, whether it returned an error, whether it
\* panicked (index out of range, regexp.MustCompile), and the misses it met:
\* pairs of the miss class (the index into serviceMisses) and the command's
\* IgnoreMiss.
CmdResult(text, err, panic, miss) ==
    [text |-> text, err |-> err, panic |-> panic, miss |-> miss]

\* The element picking that gives the last element when the list is too
\* short, and no error: C13 fails for it.
PickIndexLast(c, texts, text, missClass) ==
    LET Pick(index) ==
            IF (Len(texts) - index) < 1
            THEN CmdResult(texts[Len(texts)], FALSE, FALSE, {<<missClass, c.IgnoreMiss>>})
            ELSE IF index < 0
            THEN CmdResult(text, FALSE, TRUE, {})
            ELSE CmdResult(texts[index + 1], FALSE, FALSE, {})
    IN  Pick(IF c.Index < 0 THEN Len(texts) + c.Index ELSE c.Index)

\* The element picking shared by split and regex once the list is not empty:
\* the index is normalised; a list too short is a miss of class missClass.
PickIndex(c, texts, text, missClass) ==
    LET Pick(index) ==
            IF (Len(texts) - index) < 1
            THEN CmdResult(text, c.IgnoreMiss = "n", FALSE, {<<missClass, c.IgnoreMiss>>})
            ELSE IF index < 0
            THEN CmdResult(text, FALSE, TRUE, {})
            ELSE CmdResult(texts[index + 1], FALSE, FALSE, {})
    IN  Pick(IF c.Index < 0 THEN Len(texts) + c.Index ELSE c.Index)

\* URLCommand.split
CmdSplit(c, text) ==
    LET Of(texts) == IF Len(texts) = 1
                     THEN CmdResult(text, c.IgnoreMiss = "n", FALSE, {<<0, c.IgnoreMiss>>})
                     ELSE PickIndex(c, texts, text, 1)
    IN  Of(Split(text, c.Text))

\* URLCommand.regex
CmdRegex(c, text) ==
    LET Of(texts) == IF Len(texts) = 0
                     THEN CmdResult(text, c.IgnoreMiss = "n", FALSE, {<<2, c.IgnoreMiss>>})
                     ELSE PickIndex(c, texts, text, 3)
        With(re) == IF ~re.ok THEN CmdResult(text, FALSE, TRUE, {})
                    ELSE Of(IF c.Type = "regex" THEN FindAllString(re, text)
                            ELSE FindStringSubmatch(re, text))
    IN  With(Compile(c.Regex))

\* URLCommand.run: an error of the command gives back the text the command
\* received, and no error.
CmdRun(c, text) ==
    LET Return(r) == IF r.panic THEN r
                     ELSE IF r.err THEN CmdResult(text, FALSE, FALSE, r.miss)
                     ELSE r
    IN  Return(CASE c.Type = "split" -> CmdSplit(c, text)
                 [] c.Type = "replace" ->
                      CmdResult(ReplaceAll(text, c.Old, c.New), FALSE, FALSE, {})
                 [] c.Type \in {"regex", "regex_submatch"} -> CmdRegex(c, text)
                 [] OTHER -> CmdResult(text, FALSE, FALSE, {}))

\* URLCommandSlice.run: the commands in order from command k on; stops at the
\* first command that returns an error.
RECURSIVE RunFrom(_, _, _, _)
RunFrom(cmds, k, text, miss) ==
    LET Then(r) == IF r.panic \/ r.err
                   THEN CmdResult(r.text, r.err, r.panic, miss \cup r.miss)
                   ELSE RunFrom(cmds, k + 1, r.text, miss \cup r.miss)
    IN  IF k > Len(cmds) THEN CmdResult(text, FALSE, FALSE, miss)
        ELSE Then(CmdRun(cmds[k], text))

URLCommandsRun(cmds, text) == RunFrom(cmds, 1, text, {})

\* ------------------------------------------------------------------------
\* Service.query (service.go)
\* ------------------------------------------------------------------------

\* The literals of Service.query and regexCheckContent.
TagName == <<"\"", "t", "a", "g", "_", "n", "a", "m", "e", "\"">>
BadCredentials == <<"B", "a", "d", " ", "c", "r", "e", "d", "e", "n", "t",
    "i", "a", "l", "s">>
RateLimit == <<"r", "a", "t", "e", " ", "l", "i", "m", "i", "t">>
VersionVar == <<"$", "{", "v", "e", "r", "s", "i", "o", "n", "}">>
VersionNoVVar == <<"$", "{", "v", "e", "r", "s", "i", "o", "n", "_", "n",
    "o", "_", "v", "}">>

\* Bodies shorter than this are looked at for the GitHub error answers.
SmallBodyLen == 500

\* status.init(): the status of a Service before its first query.
StatusInit ==
    [version |-> << >>, regexMissesContent |-> 0, regexMissesVersion |-> 0,
     serviceMisses |-> <<"0", "0", "0", "0">>]

\* regexCheck(re, text): "panic" when regexp.MustCompile rejects re, else
\* whether re matches in text.
RegexCheck(re, text) ==
    LET With(r) == IF ~r.ok THEN "panic"
                   ELSE IF MatchString(r, text) THEN "match" ELSE "miss"
    IN  With(Compile(re))

\* regexCheckContent(re, text, version)
RegexCheckContent(re, text, version) ==
    RegexCheck(ReplaceAll(ReplaceAll(re, VersionVar, version),
                          VersionNoVVar, ReplaceAll(version, <<"v">>, << >>)),
               text)

\* The tag_name value of a GitHub answer: Split(body, `"tag_name"`)[1], then
\* Split(",")[0], then Split(`"`)[1]; an index out of range panics.
GitHubVersion(body) ==
    LET Quoted(b) == IF Len(b) < 2 THEN [panic |-> TRUE, text |-> << >>]
                     ELSE [panic |-> FALSE, text |-> b[2]]
        After(a) == IF Len(a) < 2 THEN [panic |-> TRUE, text |-> << >>]
                    ELSE Quoted(Split(Split(a[2], <<",">>)[1], <<"\"">>))
    IN  After(Split(body, TagName))

\* What one call of query does: the status it leaves, the value it returns
\* (ret), how it ends the process if it does (exit: "fatal" is os.Exit(1) of
\* the logger's Fatal, "panic" a run-time panic), the version it extracted and
\* the branch it left by.
\* verbose is the set of regex-miss counters whose message logVerbose was
\* told to write.
QueryResult(st, ret, exit, version, branch) ==
    [status |-> st, ret |-> ret, exit |-> exit, version |-> version, branch |-> branch,
     verbose |-> {}]

\* A miss message written on every miss: C31 fails for it.
LogVerboseEveryMiss(misses) == misses >= 1

\* The otherCondition logVerbose is given for a miss message: the counter,
\* just incremented, is 1.
LogVerbose(misses) == misses = 1

\* A progressive check that rejects nothing: C5 fails for it.
RegressesNever(old, new) == FALSE

\* A progressive check that also rejects what does not parse: C17 fails for
\* it.
RegressesOrUnparsed(old, new) ==
    \/ ~SemverOK(old)
    \/ ~SemverOK(new)
    \/ LessThan(SemverOf(new), SemverOf(old))

\* Version.LessThan(newVersion, oldVersion) of the progressive check, which is
\* made only when both strings parse.
Regresses(old, new) ==
    /\ SemverOK(old)
    /\ SemverOK(new)
    /\ LessThan(SemverOf(new), SemverOf(old))

\* setVersion storing the version without its "v"s, as the content pattern
\* has it: C16 fails for it.
SetVersionNoV(st, v) == [st EXCEPT !.version = ReplaceAll(v, <<"v">>, << >>)]

\* setVersion(v)
SetVersion(st, v) == [st EXCEPT !.version = v]

\* query without the first-version branch, the seed taken for a release: C1
\* fails for it.
QueryAcceptSeedFires(svc, st, version) ==
    QueryResult(SetVersion([st EXCEPT !.regexMissesContent = 0,
                                      !.regexMissesVersion = 0], version),
                TRUE, "", version, "new")

\* query as it was before logFatal: a first version that does not parse is
\* logged and the query returns false.  C23 fails for it.
QueryAcceptLogs(svc, st, version) ==
    LET st0 == [st EXCEPT !.regexMissesContent = 0, !.regexMissesVersion = 0]
    IN  IF st.version = << >>
        THEN IF svc.ProgressiveVersioning = "y" /\ ~SemverOK(version)
             THEN QueryResult(st0, FALSE, "", version, "seed-not-semver")
             ELSE QueryResult(SetVersion(st0, version), FALSE, "", version, "seed")
        ELSE QueryResult(SetVersion(st0, version), TRUE, "", version, "new")

\* query that keeps the regex-miss counters when it accepts a version: C32
\* fails for it.
QueryAcceptKeepsMisses(svc, st, version) ==
    IF st.version = << >>
    THEN IF svc.ProgressiveVersioning = "y" /\ ~SemverOK(version)
         THEN QueryResult(st, FALSE, "fatal", version, "seed-not-semver")
         ELSE QueryResult(SetVersion(st, version), FALSE, "", version, "seed")
    ELSE QueryResult(SetVersion(st, version), TRUE, "", version, "new")

\* query from "Found new version, so reset regex misses" on: the regex
\* filters have passed.
QueryAccept(svc, st, version) ==
    LET st0 == [st EXCEPT !.regexMissesContent = 0, !.regexMissesVersion = 0]
    IN  IF st.version = << >>
        THEN IF svc.ProgressiveVersioning = "y" /\ ~SemverOK(version)
             THEN QueryResult(st0, FALSE, "fatal", version, "seed-not-semver")
             ELSE QueryResult(SetVersion(st0, version), FALSE, "", version, "seed")
        ELSE QueryResult(SetVersion(st0, version), TRUE, "", version, "new")

\* query storing the version it rejects on a regex_version miss: C4 fails for
\* it.
QueryRegexVersionStores(svc, st, version, versionCheck) ==
    IF svc.RegexVersion # << >> /\ versionCheck = "miss"
    THEN QueryResult(SetVersion([st EXCEPT !.regexMissesVersion = @ + 1], version),
                     FALSE, "", version, "version-miss")
    ELSE QueryAccept(svc, st, version)

\* query from the check of regex_version on; versionCheck is what
\* regexCheck(s.RegexVersion, version) gives.
QueryRegexVersion(svc, st, version, versionCheck) ==
    LET m == IF svc.RegexVersion = << >> THEN "match" ELSE versionCheck
    IN  CASE m = "panic" -> QueryResult(st, FALSE, "panic", version, "regex-panic")
          [] m = "miss"  ->
               [QueryResult([st EXCEPT !.regexMissesVersion = @ + 1], FALSE, "",
                            version, "version-miss")
                   EXCEPT !.verbose = IF LogVerbose(st.regexMissesVersion + 1)
                                      THEN {"version"} ELSE {}]
          [] OTHER -> QueryAccept(svc, st, version)

\* query without the check of regex_content: C18 fails for it.
QueryRegexContentSkipped(svc, st, version, contentCheck, versionCheck) ==
    QueryRegexVersion(svc, st, version, versionCheck)

\* query from the check of regex_content on; contentCheck is what
\* regexCheckContent(s.RegexContent, body, version) gives.
QueryRegexContent(svc, st, version, contentCheck, versionCheck) ==
    LET m == IF svc.RegexContent = << >> THEN "match" ELSE contentCheck
    IN  CASE m = "panic" -> QueryResult(st, FALSE, "panic", version, "regex-panic")
          [] m = "miss"  ->
               [QueryResult([st EXCEPT !.regexMissesContent = @ + 1], FALSE, "",
                            version, "content-miss")
                   EXCEPT !.verbose = IF LogVerbose(st.regexMissesContent + 1)
                                      THEN {"content"} ELSE {}]
          [] OTHER -> QueryRegexVersion(svc, st, version, versionCheck)

\* query without the comparison with the stored version: C2 fails for it.
QueryCompareUnchanged(svc, st, version, contentCheck, versionCheck) ==
    QueryRegexContent(svc, st, version, contentCheck, versionCheck)

\* query from "If this version is different (new)" on.
QueryCompare(svc, st, version, contentCheck, versionCheck) ==
    IF version = st.version
    THEN QueryResult(st, FALSE, "", version, "unchanged")
    ELSE IF /\ svc.ProgressiveVersioning = "y"
            /\ st.version # << >>
            /\ Regresses(st.version, version)
    THEN QueryResult(st, FALSE, "", version, "regress")
    ELSE QueryRegexContent(svc, st, version, contentCheck, versionCheck)

\* What query computes from the body alone, whatever the status: how far it
\* gets (branch: "extracted" if the URL commands gave a version), the version,
\* the misses of the URL commands, and what the two regex checks give for this
\* version and body.
Extraction(svc, body) ==
    LET github == svc.Type = "github"
        small  == Len(body) < SmallBodyLen
        Stopped(branch, miss) ==
            [branch |-> branch, version |-> << >>, miss |-> miss,
             contentCheck |-> "none", versionCheck |-> "none"]
        Stop(branch) == Stopped(branch, {})
        Checked(r) ==
            IF r.panic THEN Stopped("command-panic", r.miss)
            ELSE IF r.err THEN Stopped("command-error", r.miss)
            ELSE [branch |-> "extracted", version |-> r.text, miss |-> r.miss,
                  contentCheck |->
                      IF svc.RegexContent = << >> THEN "none"
                      ELSE RegexCheckContent(svc.RegexContent, body, r.text),
                  versionCheck |->
                      IF svc.RegexVersion = << >> THEN "none"
                      ELSE RegexCheck(svc.RegexVersion, r.text)]
        Commands(seed) ==
            IF seed.panic THEN Stop("tag-panic")
            ELSE Checked(URLCommandsRun(svc.URLCommands, seed.text))
    IN  IF github /\ small /\ ~Contains(body, TagName)
        THEN IF Contains(body, BadCredentials)
             THEN Stop("bad-credentials") ELSE Stop("tag-not-found")
        ELSE IF github /\ small /\ Contains(body, RateLimit)
        THEN Stop("rate-limit")
        ELSE Commands(IF github THEN GitHubVersion(body)
                      ELSE [panic |-> FALSE, text |-> body])

\* query for an answer whose body was read; x is Extraction(svc, body).
QueryBody(svc, st, x) ==
    CASE x.branch = "bad-credentials" -> QueryResult(st, FALSE, "fatal", << >>, x.branch)
      [] x.branch \in {"tag-not-found", "rate-limit", "command-error"} ->
           QueryResult(st, FALSE, "", << >>, x.branch)
      [] x.branch \in {"tag-panic", "command-panic"} ->
           QueryResult(st, FALSE, "panic", << >>, x.branch)
      [] OTHER -> QueryCompare(svc, st, x.version, x.contentCheck, x.versionCheck)

\* ------------------------------------------------------------------------
\* configurations: the Monitors the model is checked for, as config.setDefaults
\* leaves them (config.yml.test gives their shape)
\* ------------------------------------------------------------------------

GitHubURL == <<"h", "t", "t", "p", "s", ":", "/", "/", "a", "p", "i", ".",
    "g", "i", "t", "h", "u", "b", ".", "c", "o", "m", "/", "r", "e", "p",
    "o", "s", "/", "o", "/", "r", "/", "r", "e", "l", "e", "a", "s", "e",
    "s", "/", "l", "a", "t", "e", "s", "t">>
PlainURL == <<"h", "t", "t", "p", "s", ":", "/", "/", "w", ".", "i", "o",
    "/", "v">>
RegexSubmatchV == <<"v", "(", ".", "*", ")">>
RegexVersionDigits == <<"^", "[", "0", "-", "9", ".", "]", "+", "[", "0",
    "-", "9", "]", "$">>
RegexContentAsset == <<"r", "-", "$", "{", "v", "e", "r", "s", "i", "o", "n",
    "_", "n", "o", "_", "v", "}", "-", "x">>
SlackMessage == <<"$", "{", "s", "e", "r", "v", "i", "c", "e", "_", "i", "d",
    "}", " ", "$", "{", "v", "e", "r", "s", "i", "o", "n", "}">>
GotifyMessage == <<"$", "{", "v", "e", "r", "s", "i", "o", "n", "}", " ",
    "o", "f", " ", "$", "{", "s", "e", "r", "v", "i", "c", "e", "_", "i",
    "d", "}">>
GotifyTitle == <<"$", "{", "m", "o", "n", "i", "t", "o", "r", "_", "i", "d",
    "}">>
HookURL == <<"h", "t", "t", "p", "s", ":", "/", "/", "h", ".", "i", "o">>
ChatURL == <<"h", "t", "t", "p", "s", ":", "/", "/", "c", ".", "i", "o">>
PushURL == <<"h", "t", "t", "p", "s", ":", "/", "/", "p", ".", "i", "o">>

NoSlack == [Message |-> << >>, Username |-> << >>, IconEmoji |-> << >>, IconURL |-> << >>]
NoGotify == [Message |-> << >>, Title |-> << >>]

URLCommand(type, regex, index, old, new, text, ignoreMiss) ==
    [Type |-> type, Regex |-> regex, Index |-> index, Old |-> old, New |-> new,
     Text |-> text, IgnoreMiss |-> ignoreMiss]

\* A GitHub Service as in config.yml.test: the leading v is cut off, the
\* version and the content are filtered, versions are progressive.
ServiceGitHub ==
    [ID |-> <<"o", "/", "r">>, Type |-> "github", URL |-> GitHubURL,
     URLCommands |->
        << URLCommand("regex_submatch", RegexSubmatchV, 1, << >>, << >>, << >>, "n") >>,
     ProgressiveVersioning |-> "y",
     RegexContent |-> RegexContentAsset, RegexVersion |-> RegexVersionDigits,
     SkipGotify |-> FALSE, SkipSlack |-> FALSE, SkipWebHook |-> FALSE,
     Slack |-> NoSlack, Gotify |-> NoGotify]

\* A URL Service: the version is the text before the first comma, versions are
\* not progressive, nothing is filtered.
ServiceURL ==
    [ID |-> <<"w">>, Type |-> "url", URL |-> PlainURL,
     URLCommands |->
        << URLCommand("split", << >>, 0, << >>, << >>, <<",">>, "y") >>,
     ProgressiveVersioning |-> "n",
     RegexContent |-> << >>, RegexVersion |-> << >>,
     SkipGotify |-> FALSE, SkipSlack |-> FALSE, SkipWebHook |-> FALSE,
     Slack |-> NoSlack, Gotify |-> NoGotify]

\* A URL Service whose version is the whole body, with progressive versions.
ServiceRaw ==
    [ID |-> <<"w">>, Type |-> "url", URL |-> PlainURL, URLCommands |-> << >>,
     ProgressiveVersioning |-> "y",
     RegexContent |-> << >>, RegexVersion |-> << >>,
     SkipGotify |-> FALSE, SkipSlack |-> FALSE, SkipWebHook |-> FALSE,
     Slack |-> NoSlack, Gotify |-> NoGotify]

Gotify(maxTries) ==
    [URL |-> PushURL, Token |-> <<"t">>, Title |-> GotifyTitle, Message |-> GotifyMessage,
     Priority |-> <<"5">>, Delay |-> <<"0", "s">>, MaxTries |-> maxTries]

Slack(maxTries) ==
    [URL |-> ChatURL, IconEmoji |-> <<":", "g", ":">>, IconURL |-> << >>,
     Username |-> <<"n">>, Message |-> SlackMessage, Delay |-> <<"4", "s">>,
     MaxTries |-> maxTries]

WebHook(maxTries, silentFails) ==
    [Type |-> "github", URL |-> HookURL, Secret |-> <<"k">>, DesiredStatusCode |-> 202,
     Delay |-> <<"3", "s">>, MaxTries |-> maxTries, SilentFails |-> silentFails]

\* valueOrValueUInt(a, b)
ValueOrValueUInt(a, b) == IF a = 0 THEN b ELSE a

\* Defaults.setDefaults: the tries of a chat recipient if the defaults give
\* none.
DefaultMaxTries == 3

\* Slack.setDefaults, for MaxTries.
SlackSetDefaultMaxTries(s) ==
    [s EXCEPT !.MaxTries = ValueOrValueUInt(@, DefaultMaxTries)]

Monitor(id, services, gotifys, slacks, webhooks) ==
    [ID |-> id, Service |-> services, Gotify |-> gotifys, Slack |-> slacks,
     WebHook |-> webhooks]

\* ------------------------------------------------------------------------
\* answers of the polled server
\* ------------------------------------------------------------------------

Pad(n) == [k \in 1..n |-> " "]

BodyV100 == <<"{", "\"", "t", "a", "g", "_", "n", "a", "m", "e", "\"", ":",
    "\"", "v", "1", ".", "0", ".", "0", "\"", ",", "\"", "n", "\"", ":",
    "\"", "r", "-", "1", ".", "0", ".", "0", "-", "x", "\"", "}">>
BodyV101 == <<"{", "\"", "t", "a", "g", "_", "n", "a", "m", "e", "\"", ":",
    "\"", "v", "1", ".", "0", ".", "1", "\"", ",", "\"", "n", "\"", ":",
    "\"", "r", "-", "1", ".", "0", ".", "1", "-", "x", "\"", "}">>
BodyV110NoAsset == <<"{", "\"", "t", "a", "g", "_", "n", "a", "m", "e", "\"",
    ":", "\"", "v", "1", ".", "1", ".", "0", "\"", ",", "\"", "n", "\"", ":",
    "\"", "\"", "}">>
BodyV10 == <<"{", "\"", "t", "a", "g", "_", "n", "a", "m", "e", "\"", ":",
    "\"", "v", "1", ".", "0", "\"", ",", "\"", "n", "\"", ":", "\"", "r",
    "-", "1", ".", "0", "-", "x", "\"", "}">>
BodyVb == <<"{", "\"", "t", "a", "g", "_", "n", "a", "m", "e", "\"", ":",
    "\"", "v", "b", "\"", ",", "\"", "n", "\"", ":", "\"", "r", "-", "b",
    "-", "x", "\"", "}">>
BodyBadCredentials == <<"{", "\"", "m", "e", "s", "s", "a", "g", "e", "\"",
    ":", "\"", "B", "a", "d", " ", "c", "r", "e", "d", "e", "n", "t", "i",
    "a", "l", "s", "\"", "}">>
BodyRateLimit == <<"{", "\"", "m", "e", "s", "s", "a", "g", "e", "\"", ":",
    "\"", "A", "P", "I", " ", "r", "a", "t", "e", " ", "l", "i", "m", "i",
    "t", " ", "e", "x", "c", "e", "e", "d", "e", "d", "\"", "}">>
BodyRaw100 == <<"1", ".", "0", ".", "0">>
BodyRaw101 == <<"1", ".", "0", ".", "1">>
BodyRaw110 == <<"1", ".", "1", ".", "0">>
BodyBigV101 == BodyV101 \o Pad(SmallBodyLen)
BodyBigNoTag == <<"x", ",">> \o Pad(SmallBodyLen)
BodyNoV102 == <<"{", "\"", "t", "a", "g", "_", "n", "a", "m", "e", "\"", ":",
    "\"", "1", ".", "0", ".", "2", "\"", ",", "\"", "n", "\"", ":", "\"",
    "r", "-", "1", ".", "0", ".", "2", "-", "x", "\"", "}">>
BodyEmpty == << >>

\* The bodies a query can read.
Bodies ==
    << BodyV100, BodyV101, BodyV110NoAsset, BodyV10, BodyVb, BodyBadCredentials,
       BodyRateLimit, BodyRaw100, BodyRaw101, BodyRaw110, BodyBigV101, BodyBigNoTag,
       BodyNoV102, BodyEmpty >>

\* What the HTTP GET of a query gives: no request could be built, the request
\* failed with an x509 error or another error, the body could not be read, or
\* body number b was read.
Responses ==
    [kind : {"bad-request", "x509", "error", "read-error"}, body : {0}]
        \cup [kind : {"body"}, body : 1..Len(Bodies)]

\* A query that gives up, as for a command's error, on a miss of a class whose
\* bit the mask has: C38 fails for it.
QueryMaskAborts(svc, st, resp, x) ==
    IF resp.kind # "body"
    THEN QueryResult(st, FALSE, "", << >>, resp.kind)
    ELSE IF \E m \in x.miss : st.serviceMisses[m[1] + 1] = "1"
    THEN QueryResult(st, FALSE, "", << >>, "command-error")
    ELSE QueryBody(svc, st, x)

\* Service.query: one poll of svc with status st, the HTTP GET giving resp; x
\* is Extraction(svc, body) for the body read.
Query(svc, st, resp, x) ==
    IF resp.kind # "body"
    THEN QueryResult(st, FALSE, "", << >>, resp.kind)
    ELSE QueryBody(svc, st, x)

\* ------------------------------------------------------------------------
\* the messages of the senders (slack.go, gotify.go, webhook.go)
\* ------------------------------------------------------------------------

MonitorIDVar == <<"$", "{", "m", "o", "n", "i", "t", "o", "r", "_", "i", "d",
    "}">>
ServiceURLVar == <<"$", "{", "s", "e", "r", "v", "i", "c", "e", "_", "u",
    "r", "l", "}">>
ServiceIDVar == <<"$", "{", "s", "e", "r", "v", "i", "c", "e", "_", "i", "d",
    "}">>
GitHubRepos == <<"g", "i", "t", "h", "u", "b", ".", "c", "o", "m", "/", "r",
    "e", "p", "o", "s", "/">>
GitHubPrefix == <<"h", "t", "t", "p", "s", ":", "/", "/", "g", "i", "t", "h",
    "u", "b", ".", "c", "o", "m", "/">>
FailedText == <<")", ",", " ", "F", "a", "i", "l", "e", "d", " ">>
TimesText == <<" ", "t", "i", "m", "e", "s", " ", "t", "o", " ", "s", "e",
    "n", "d", " ", "a", " ", "W", "e", "b", "H", "o", "o", "k", " ", "t",
    "o", " ">>
WebHookFail == <<"W", "e", "b", "H", "o", "o", "k", " ", "f", "a", "i", "l">>

DigitChar(d) ==
    CASE d = 0 -> "0" [] d = 1 -> "1" [] d = 2 -> "2" [] d = 3 -> "3" [] d = 4 -> "4"
      [] d = 5 -> "5" [] d = 6 -> "6" [] d = 7 -> "7" [] d = 8 -> "8" [] OTHER -> "9"

\* strconv.Itoa(n), and %d of fmt.Sprintf, for n >= 0.
RECURSIVE Itoa(_)
Itoa(n) == IF n < 10 THEN << DigitChar(n) >> ELSE Itoa(n \div 10) \o << DigitChar(n % 10) >>

\* valueOrValueString(a, b)
ValueOrValueString(a, b) == IF a = << >> THEN b ELSE a

\* The Service a webhook sender hands to the senders of its failure
\* message: Service{ID: serviceID}.
StubService(id) ==
    [ID |-> id, Type |-> "", URL |-> << >>, Slack |-> NoSlack, Gotify |-> NoGotify]

\* The non-API URL of the Service as Slack.send and Gotify.send compute it;
\* Split(...)[1] panics when a github Service's URL is no API URL.
ServiceURLOf(svc) ==
    LET Repo(b) == IF Len(b) < 2 THEN [panic |-> TRUE, text |-> << >>]
                   ELSE [panic |-> FALSE,
                         text |-> GitHubPrefix \o b[1] \o <<"/">> \o b[2]]
        After(a) == IF Len(a) < 2 THEN [panic |-> TRUE, text |-> << >>]
                    ELSE Repo(Split(a[2], <<"/">>))
    IN  IF svc.Type = "github" THEN After(Split(svc.URL, GitHubRepos))
        ELSE [panic |-> FALSE, text |-> svc.URL]

\* The four substitutions of a new-release message; version is
\* svc.status.version as read when the message is sent.
Resolve(template, monitorID, serviceURL, serviceID, version) ==
    ReplaceAll(ReplaceAll(ReplaceAll(ReplaceAll(template,
        MonitorIDVar, monitorID), ServiceURLVar, serviceURL),
        ServiceIDVar, serviceID), VersionVar, version)

\* Slack.send with the substitutions made in the message it is handed as
\* well: C34 fails for it.
SlackTextResolvesAll(s, monitorID, svc, version, message) ==
    LET With(u) ==
            IF u.panic THEN u
            ELSE [panic |-> FALSE,
                  text |-> Resolve(IF message # << >> THEN message
                                   ELSE ValueOrValueString(svc.Slack.Message, s.Message),
                                   monitorID, u.text, svc.ID, version)]
    IN  With(ServiceURLOf(svc))

\* The text of the payload of Slack.send.
SlackText(s, monitorID, svc, version, message) ==
    LET With(u) ==
            IF u.panic THEN u
            ELSE IF message # << >> THEN [panic |-> FALSE, text |-> message]
            ELSE [panic |-> FALSE,
                  text |-> Resolve(ValueOrValueString(svc.Slack.Message, s.Message),
                                   monitorID, u.text, svc.ID, version)]
    IN  With(ServiceURLOf(svc))

\* The message of the payload of Gotify.send.
GotifyText(g, monitorID, svc, version, message) ==
    LET With(u) ==
            IF u.panic THEN u
            ELSE IF message # << >> THEN [panic |-> FALSE, text |-> message]
            ELSE [panic |-> FALSE,
                  text |-> Resolve(ValueOrValueString(svc.Gotify.Message, g.Message),
                                   monitorID, u.text, svc.ID, version)]
    IN  With(ServiceURLOf(svc))

\* The failure message of a webhook sender that gives up.
FailMessage(serviceID, monitorID, w) ==
    serviceID \o <<" ", "(">> \o monitorID \o FailedText \o Itoa(w.MaxTries)
        \o TimesText \o w.URL

\* What an HTTP POST of a sender gives: a transport error (time-out included)
\* or an answer with a status code.
HTTPResults ==
    {[err |-> TRUE, code |-> 0]} \cup [err : {FALSE}, code : {200, 202, 500}]

\* strconv.Itoa(code)[:1] == "2"
Is2XX(code) == Itoa(code)[1] = "2"

\* Slack.send and Gotify.send return nil.
MessageSent(res) == ~res.err /\ Is2XX(res.code)

\* The bodies json.Marshal gives for WebHookGitHub{Ref, Before, After} with
\* Before and After drawn by randAlphaNumericLower(40): two of them stand for
\* all.
Payloads == { <<"b", "1">>, <<"b", "2">> }

\* hex.EncodeToString of the HMAC of body under key with hash alg: the MAC is
\* a term that is equal to another only if alg, key and body all are.
Hmac(alg, key, body) == [alg |-> alg, key |-> key, body |-> body]

\* A request whose signatures were computed before the body was drawn anew:
\* C20 fails for it.
WebHookRequestStale(w, payload) ==
    [url |-> w.URL, body |-> payload,
     sig256 |-> [prefix |-> "sha256=", mac |-> Hmac("sha256", w.Secret, <<"b", "1">>)],
     sig1 |-> [prefix |-> "sha1=", mac |-> Hmac("sha1", w.Secret, <<"b", "1">>)]]

\* The request WebHook.send builds: the payload as body, and the two
\* signature headers over that payload under w.Secret.
WebHookRequest(w, payload) ==
    [url |-> w.URL, body |-> payload,
     sig256 |-> [prefix |-> "sha256=", mac |-> Hmac("sha256", w.Secret, payload)],
     sig1 |-> [prefix |-> "sha1=", mac |-> Hmac("sha1", w.Secret, payload)]]

\* A webhook that answers with any 2XX counts as received, whatever
\* DesiredStatusCode is: C19 fails for it.
WebHookSent2XX(w, res) == ~res.err /\ Is2XX(res.code)

\* WebHook.send returns nil.
WebHookSent(w, res) ==
    /\ ~res.err
    /\ \/ res.code = w.DesiredStatusCode
       \/ w.DesiredStatusCode = 0 /\ Is2XX(res.code)

\* ------------------------------------------------------------------------
\* the program: the Supervisor, one Tracker per Service, the fan-outs and
\* the senders
\* ------------------------------------------------------------------------

\* Answers with body number b of Bodies.
Body(b) == [kind |-> "body", body |-> b]
Failures == [kind : {"bad-request", "x509", "error", "read-error"}, body : {0}]

\* The releases 1.0.0, 1.0.1 and 1.1.0 as plain bodies, and a failed request.
PlainReleases(n) == { Body(b) : b \in 8..(7 + n) } \cup {[kind |-> "error", body |-> 0]}

\* A message override of a Service that names every placeholder, one of them
\* twice.
OverrideMessage ==
    MonitorIDVar \o <<" ">> \o ServiceURLVar \o <<" ">> \o ServiceIDVar \o <<" ">>
        \o VersionVar \o <<" ">> \o VersionVar

\* The runs the model is checked for: a Monitor and the answers its polled
\* server gives.  The first two are for the queries, with every answer; the
\* others are for the senders, with a server that publishes two or three
\* releases; the fourth has a Service whose ID reads like a placeholder, the
\* fifth and the sixth a Service with a message override; the seventh has a
\* webhook without a desired status code, the eighth a chat recipient whose
\* max_tries the configuration file gives as 0.  The last is for the Trackers:
\* a Monitor with two Services.
Scenarios ==
    << [mon |-> Monitor(<<"m">>, << ServiceGitHub >>,
                        << Gotify(1) >>, << Slack(1) >>, << WebHook(1, "n") >>),
        answers |-> Responses],
       [mon |-> Monitor(<<"u">>, << [ServiceURL EXCEPT !.SkipSlack = TRUE] >>,
                        << Gotify(1) >>, << Slack(1) >>, << WebHook(1, "n") >>),
        answers |-> Responses],
       [mon |-> Monitor(<<"k">>, << ServiceRaw >>,
                        << Gotify(2) >>, << Slack(2) >>, << WebHook(2, "y") >>),
        answers |-> PlainReleases(2)],
       [mon |-> Monitor(<<"e">>,
                        << [ServiceRaw EXCEPT !.ID = MonitorIDVar, !.SkipGotify = TRUE,
                                              !.SkipSlack = TRUE] >>,
                        << Gotify(1) >>, << Slack(1), Slack(1) >>, << WebHook(2, "n") >>),
        answers |-> PlainReleases(2)],
       [mon |-> Monitor(<<"c">>,
                        << [ServiceRaw EXCEPT !.SkipGotify = TRUE, !.SkipWebHook = TRUE,
                                              !.Slack.Message = OverrideMessage] >>,
                        << >>, << Slack(2) >>, << >>),
        answers |-> PlainReleases(3)],
       [mon |-> Monitor(<<"p">>,
                        << [ServiceRaw EXCEPT !.SkipSlack = TRUE, !.SkipWebHook = TRUE,
                                              !.Gotify.Message = OverrideMessage] >>,
                        << Gotify(2) >>, << >>, << >>),
        answers |-> PlainReleases(3)],
       [mon |-> Monitor(<<"d">>,
                        << [ServiceRaw EXCEPT !.SkipGotify = TRUE, !.SkipSlack = TRUE] >>,
                        << >>, << >>,
                        << [WebHook(2, "y") EXCEPT !.DesiredStatusCode = 0] >>),
        answers |-> PlainReleases(2)],
       [mon |-> Monitor(<<"z">>,
                        << [ServiceRaw EXCEPT !.SkipGotify = TRUE, !.SkipWebHook = TRUE] >>,
                        << >>, << SlackSetDefaultMaxTries(Slack(0)) >>, << >>),
        answers |-> PlainReleases(2)],
       [mon |-> Monitor(<<"t">>,
                        << [ServiceRaw EXCEPT !.SkipGotify = TRUE, !.SkipWebHook = TRUE],
                           [ServiceRaw EXCEPT !.ID = <<"x">>, !.SkipGotify = TRUE,
                                              !.SkipWebHook = TRUE] >>,
                        << >>, << Slack(1) >>, << >>),
        answers |-> PlainReleases(2)] >>

\* Extraction for every Service of every scenario and every body.
Extractions ==
    [c \in 1..Len(Scenarios) |->
        [s \in 1..Len(Scenarios[c].mon.Service) |->
            [b \in 1..Len(Bodies) |->
                Extraction(Scenarios[c].mon.Service[s], Bodies[b])]]]

\* The result of a query of Service s of scenario c that reads resp.
Poll(c, s, st, resp) ==
    Query(Scenarios[c].mon.Service[s], st, resp,
          IF resp.kind = "body" THEN Extractions[c][s][resp.body]
          ELSE [branch |-> resp.kind])

QueryScenarios == {1, 2}
SendScenarios == {3, 4, 5, 6, 7, 8}
TrackScenarios == {9}

\* max_tries of recipient k of a kind as the configuration file of scenario c
\* gives it.
MaxTriesRead(c, kind, k) ==
    IF c = 8 THEN 0
    ELSE (CASE kind = "gotify" -> Scenarios[c].mon.Gotify
            [] kind = "slack" -> Scenarios[c].mon.Slack
            [] OTHER -> Scenarios[c].mon.WebHook)[k].MaxTries

\* Queries per Service.
MaxCycles == 3

VARIABLES
    cfg,       \* which of Scenarios runs
    tracking,  \* the number of passes of the loop of MonitorSlice.track so far
    trackers,  \* trackers[t]: the Service of the t-th Tracker started
    status,    \* status[s]: the status of Service s
    cycles,    \* cycles[s]: the number of queries of Service s so far
    last,      \* last[s]: what the last query of Service s read, did and returned,
               \* and the version and the regex-miss counters it found
    exited,    \* "" while the process runs, else how it ended
    fanouts,   \* the calls of GotifySlice.send, SlackSlice.send, WebHookSlice.send
    senders,   \* the goroutines these calls have started, one per loop pass
    warnings,  \* warnings[s][k + 1]: the warnings logged for misses of class k of Service s
    eng,       \* a run of URLCommandSlice.run looked at on its own
    conf       \* the loading of a configuration looked at on its own

vars == << cfg, tracking, trackers, status, cycles, last, exited, fanouts, senders,
          warnings, eng, conf >>

Mon == Scenarios[cfg].mon
Services == 1..Len(Mon.Service)

\* The recipients of a kind.
Recipients(kind) ==
    CASE kind = "gotify" -> Mon.Gotify
      [] kind = "slack" -> Mon.Slack
      [] OTHER -> Mon.WebHook

\* No warning about a miss has been logged.
NoWarnings == [k \in 1..4 |-> 0]

\* The warnings of one query of a Service with status st whose commands met
\* the misses miss: a miss of class k is logged if getAtIndex(serviceMisses,
\* k) is "0".  split and regex are given the Service by value (*service), so
\* the replaceAtIndex that follows the warning changes their copy and
\* st.serviceMisses stays as it is.
MissWarnings(st, miss) ==
    { k \in 0..3 : st.serviceMisses[k + 1] = "0" /\ \E m \in miss : m[1] = k }

\* The warning counts w after one more warning for each class of classes.
Warn(w, classes) == [k \in 1..4 |-> IF (k - 1) \in classes THEN w[k] + 1 ELSE w[k]]

\* No run of the engine on its own.
NoEngine ==
    [cmds |-> << >>, text |-> << >>, k |-> 0, pc |-> "idle", prev |-> << >>,
     miss |-> {}]

\* No configuration is looked at on its own.
NoConf == [pc |-> "idle"]

NoQuery ==
    [before |-> << >>, resp |-> [kind |-> "none", body |-> 0], ret |-> "none",
     version |-> << >>, branch |-> "none", launched |-> << >>, verbose |-> {},
     missesBefore |-> <<0, 0>>]

Init ==
    /\ cfg \in SendScenarios
    /\ tracking = 0
    /\ trackers = << >>
    /\ status = [s \in Services |-> StatusInit]
    /\ cycles = [s \in Services |-> 0]
    /\ last = [s \in Services |-> NoQuery]
    /\ exited = ""
    /\ fanouts = << >>
    /\ senders = << >>
    /\ warnings = [s \in Services |-> NoWarnings]
    /\ eng = NoEngine
    /\ conf = NoConf

\* A loop that starts every Tracker for the first Service: C30 fails for it.
SpawnServiceFirst(n) == 1

\* serviceIndex in pass n (from 0) of the loop over the Services of the
\* Monitor, as go (*m)[monitorIndex].track(serviceIndex, defaults) is given
\* it.
SpawnService(n) == n + 1

\* MonitorSlice.track: one pass of the loop starts the Tracker of the next
\* Service (go track(serviceIndex)) and sleeps 10 to 19 seconds.
Spawn ==
    /\ exited = ""
    /\ tracking < Len(Mon.Service)
    /\ tracking' = tracking + 1
    /\ trackers' = Append(trackers, SpawnService(tracking))
    /\ UNCHANGED << cfg, status, cycles, last, exited, fanouts, senders, warnings, eng, conf >>

\* A call of X.send started by go or made by a webhook sender (owner # 0): the
\* loop variable index, where the loop is, and what the call was given.
\* svc = 0 is the Service{ID} of a failure message.  version is the version
\* whose acceptance started the call.
Fanout(kind, svc, message, title, owner, s, version) ==
    [kind |-> kind, svc |-> svc, message |-> message, title |-> title,
     owner |-> owner, index |-> 0, pc |-> "new", service |-> s, version |-> version]

\* The go statements without the skip flags: C3 fails for them.
ReleaseFanoutsNoSkip(s, version) ==
    << Fanout("gotify", s, << >>, << >>, 0, s, version),
       Fanout("slack", s, << >>, << >>, 0, s, version),
       Fanout("webhook", s, << >>, << >>, 0, s, version) >>

\* The three go statements of Monitor.track after a query that returned true.
ReleaseFanouts(s, version) ==
    LET svc == Mon.Service[s]
        F(kind) == << Fanout(kind, s, << >>, << >>, 0, s, version) >>
    IN  (IF svc.SkipGotify THEN << >> ELSE F("gotify"))
        \o (IF svc.SkipSlack THEN << >> ELSE F("slack"))
        \o (IF svc.SkipWebHook THEN << >> ELSE F("webhook"))

\* A status kept once for the Monitor, which every Tracker of it writes: C29
\* fails for it.
StatusAfterShared(s, st) == [t \in Services |-> st]

\* m.Service[serviceIndex].query writes the status of its own Service.
StatusAfter(s, st) == [status EXCEPT ![s] = st]

\* A Tracker that calls send without go, and so goes on when the senders of
\* its Service are done: C28 fails for it.
AwaitsOwn(s) == { i \in 1..Len(senders) : fanouts[senders[i].fan].service = s }

\* The senders a Tracker waits for before it sleeps and queries again: the
\* calls of send are go statements, so none.
Awaits(s) == {}

\* Monitor.track: one pass of the loop of the Tracker of Service s: the query,
\* the go statements if it returned true, and the sleep of the interval.
TrackCycle(s) ==
    LET Misses(resp) == IF resp.kind = "body"
                        THEN Extractions[cfg][s][resp.body].miss ELSE {}
        Pass(resp, r, new) ==
            /\ status' = StatusAfter(s, r.status)
            /\ cycles' = [cycles EXCEPT ![s] = @ + 1]
            /\ last' = [last EXCEPT ![s] =
                   [before |-> status[s].version, resp |-> resp,
                    ret |-> IF r.exit # "" THEN "exit"
                            ELSE IF r.ret THEN "true" ELSE "false",
                    version |-> r.version, branch |-> r.branch,
                    launched |-> [k \in 1..Len(new) |-> new[k].kind],
                    verbose |-> r.verbose,
                    missesBefore |-> << status[s].regexMissesContent,
                                        status[s].regexMissesVersion >>]]
            /\ exited' = r.exit
            /\ fanouts' = fanouts \o new
            /\ warnings' = [warnings EXCEPT ![s] = Warn(@, MissWarnings(status[s], Misses(resp)))]
        Queried(resp, r) ==
            Pass(resp, r, IF r.exit = "" /\ r.ret
                          THEN ReleaseFanouts(s, r.status.version) ELSE << >>)
    IN  /\ exited = ""
        /\ \E t \in 1..Len(trackers) : trackers[t] = s
        /\ \A i \in Awaits(s) : senders[i].pc \in {"succeeded", "gaveup", "escalated"}
        /\ cycles[s] < MaxCycles
        /\ \E resp \in Scenarios[cfg].answers :
               Queried(resp, Poll(cfg, s, status[s], resp))
        /\ UNCHANGED << cfg, tracking, trackers, senders, eng, conf >>

\* No request of a webhook sender yet, and no answer to it.
NoRequest == [url |-> << >>, body |-> << >>, sig256 |-> << >>, sig1 |-> << >>]
NoResult == [err |-> FALSE, code |-> 0]

\* The goroutine a loop pass starts (go func() {...}()): it has not yet run
\* its first statement.  pass is the value of the loop variable at the start;
\* delays and backoffs count its sleeps of the recipient's Delay and of the 10
\* seconds between two tries.
Sender(f, pass) ==
    [fan |-> f, pass |-> pass, index |-> 0 - 1, triesLeft |-> 0, pc |-> "launched",
     attempts |-> 0, sent |-> 0, text |-> << >>, req |-> NoRequest, res |-> NoResult,
     delays |-> 0, backoffs |-> 0]

\* What a webhook sender does once the loop of a send call it made has ended:
\* after slacks.send comes gotifys.send, after gotifys.send the sender is done.
AfterOwnedFanout(fo, fs) ==
    IF fo.owner # 0 /\ fo.kind = "slack"
    THEN Append(fs, Fanout("gotify", 0, fo.message, WebHookFail, fo.owner,
                           fo.service, fo.version))
    ELSE fs

\* GotifySlice.send, SlackSlice.send, WebHookSlice.send: the step of call f
\* from one 3 second sleep to the next: the loop variable moves on and the
\* sender of the next recipient is started, or the loop ends.
FanoutStep(f) ==
    /\ exited = ""
    /\ fanouts[f].pc \in {"new", "sleep"}
    /\ LET fo == fanouts[f]
           next == IF fo.pc = "new" THEN 0 ELSE fo.index + 1
       IN  IF next < Len(Recipients(fo.kind))
           THEN /\ fanouts' = [fanouts EXCEPT ![f].index = next, ![f].pc = "sleep"]
                /\ senders' = Append(senders, Sender(f, next))
           ELSE /\ fanouts' = AfterOwnedFanout(fo, [fanouts EXCEPT ![f].pc = "done"])
                /\ senders' = IF fo.owner # 0 /\ fo.kind = "gotify"
                              THEN [senders EXCEPT ![fo.owner].pc = "escalated"]
                              ELSE senders
    /\ UNCHANGED << cfg, tracking, trackers, status, cycles, last, exited, warnings, eng, conf >>

\* The first statements of a sender: index := index reads the loop variable of
\* the call that started it, as it is now; triesLeft is the recipient's
\* MaxTries; then the sender sleeps the recipient's Delay.
SenderStart(i) ==
    /\ exited = ""
    /\ senders[i].pc = "launched"
    /\ LET fo == fanouts[senders[i].fan]
       IN  senders' = [senders EXCEPT
               ![i].index = fo.index,
               ![i].triesLeft = Recipients(fo.kind)[fo.index + 1].MaxTries,
               ![i].delays = @ + 1,
               ![i].pc = "delaying"]
    /\ UNCHANGED << cfg, tracking, trackers, status, cycles, last, exited, fanouts, warnings, eng, conf >>

\* The recipient a sender that has started sends to.
RecipientOf(sn) == Recipients(fanouts[sn.fan].kind)[sn.index + 1]

\* The Service a call of send was given.
ServiceOf(fo) == IF fo.svc = 0 THEN StubService(Mon.Service[fo.service].ID)
                 ELSE Mon.Service[fo.svc]

\* svc.status.version as a sender reads it now.
VersionNow(fo) == IF fo.svc = 0 THEN << >> ELSE status[fo.svc].version

\* The text the sender would send now: a webhook has a random body.
TextNow(sn) ==
    LET fo == fanouts[sn.fan]
    IN  CASE fo.kind = "slack" ->
               SlackText(RecipientOf(sn), Mon.ID, ServiceOf(fo), VersionNow(fo), fo.message)
          [] fo.kind = "gotify" ->
               GotifyText(RecipientOf(sn), Mon.ID, ServiceOf(fo), VersionNow(fo), fo.message)
          [] OTHER -> [panic |-> FALSE, text |-> << >>]

\* Whether the POST of a sender of this kind to recipient r succeeded.
SendOK(kind, r, res) ==
    IF kind = "webhook" THEN WebHookSent(r, res) ELSE MessageSent(res)

\* triesLeft-- of an unsigned counter: below 0 stands for the wrapped values,
\* which are not 0 either.
Decrement(triesLeft) == triesLeft - 1

\* Giving up with the zero test before the decrement: C7 fails for it.
GivesUpLate(triesLeft) == triesLeft = 0

\* The sender gives up after this failure.
GivesUp(triesLeft) == Decrement(triesLeft) = 0

\* Every sender that gives up sends a failure message: C9 fails for it.
EscalatesAlways(kind, r) == TRUE

\* A webhook sender that gives up sends its failure message if the webhook
\* is not silent.
Escalates(kind, r) == kind = "webhook" /\ r.SilentFails = "n"

\* A loop pass that goes round without the sleep: C26 fails for it.
BackoffNone(ok, up) == 0

\* The sleeps of 10 seconds at the end of a loop pass: one, unless the send
\* succeeded or the sender gave up.
Backoff(ok, up) == IF ~ok /\ ~up THEN 1 ELSE 0

\* The random bodies a sender of this kind can draw for one attempt.
RandomBodies(kind) == IF kind = "webhook" THEN Payloads ELSE { << >> }

\* One pass of the loop of a sender: the send after the delay or after the 10
\* seconds of a retry, and what follows from its result res.  A webhook
\* sender's request and the answer to it are kept in req and res.
SenderAttempt(i) ==
    LET Attempt(fo, r, t, ok, up, req, res) ==
            IF t.panic
            THEN /\ exited' = "panic"
                 /\ UNCHANGED << senders, fanouts >>
            ELSE /\ exited' = exited
                 /\ senders' = [senders EXCEPT
                       ![i].attempts = @ + 1,
                       ![i].sent = IF ok THEN @ + 1 ELSE @,
                       ![i].text = t.text,
                       ![i].req = req,
                       ![i].res = res,
                       ![i].triesLeft = IF ok THEN @ ELSE Decrement(@),
                       ![i].backoffs = @ + Backoff(ok, up),
                       ![i].pc = IF ok THEN "succeeded"
                                 ELSE IF ~up THEN "retrying"
                                 ELSE IF Escalates(fo.kind, r) THEN "escalating"
                                 ELSE "gaveup"]
                 /\ fanouts' =
                       IF ~ok /\ up /\ Escalates(fo.kind, r)
                       THEN Append(fanouts,
                                Fanout("slack", 0,
                                       FailMessage(Mon.Service[fo.service].ID, Mon.ID, r),
                                       << >>, i, fo.service, fo.version))
                       ELSE fanouts
        Post(sn, fo, r, res, p) ==
            Attempt(fo, r, TextNow(sn), SendOK(fo.kind, r, res), GivesUp(sn.triesLeft),
                    IF fo.kind = "webhook" THEN WebHookRequest(r, p) ELSE NoRequest,
                    IF fo.kind = "webhook" THEN res ELSE NoResult)
    IN  /\ exited = ""
        /\ senders[i].pc \in {"delaying", "retrying"}
        /\ \E res \in HTTPResults, p \in RandomBodies(fanouts[senders[i].fan].kind) :
               Post(senders[i], fanouts[senders[i].fan], RecipientOf(senders[i]), res, p)
        /\ UNCHANGED << cfg, tracking, trackers, status, cycles, last, warnings, eng, conf >>

Next ==
    \/ Spawn
    \/ \E s \in Services : TrackCycle(s)
    \/ \E f \in 1..Len(fanouts) : FanoutStep(f)
    \/ \E i \in 1..Len(senders) : SenderStart(i)
    \/ \E i \in 1..Len(senders) : SenderAttempt(i)

\* The whole program, for the Monitors of SendScenarios.
Spec == Init /\ [][Next]_vars

\* The whole program for the Monitor with two Services.  The Supervisor's loop
\* and the loop of each Tracker sleep and go on: nothing they wait for is
\* another goroutine's doing.  The senders are not assumed to get anywhere.
MaxServices == 2

InitTrackers ==
    /\ cfg \in TrackScenarios
    /\ tracking = 0
    /\ trackers = << >>
    /\ status = [s \in Services |-> StatusInit]
    /\ cycles = [s \in Services |-> 0]
    /\ last = [s \in Services |-> NoQuery]
    /\ exited = ""
    /\ fanouts = << >>
    /\ senders = << >>
    /\ warnings = [s \in Services |-> NoWarnings]
    /\ eng = NoEngine
    /\ conf = NoConf

SpecTrackers ==
    /\ InitTrackers
    /\ [][Next]_vars
    /\ WF_vars(Spawn)
    /\ \A s \in 1..MaxServices : WF_vars(TrackCycle(s))

\* The Supervisor and the Trackers alone, for the Monitors of QueryScenarios:
\* the calls of send that a Tracker starts are recorded and do not run.  No
\* step of a call of send or of a sender writes what a Tracker reads.
InitQuery ==
    /\ cfg \in QueryScenarios
    /\ tracking = 0
    /\ trackers = << >>
    /\ status = [s \in Services |-> StatusInit]
    /\ cycles = [s \in Services |-> 0]
    /\ last = [s \in Services |-> NoQuery]
    /\ exited = ""
    /\ fanouts = << >>
    /\ senders = << >>
    /\ warnings = [s \in Services |-> NoWarnings]
    /\ eng = NoEngine
    /\ conf = NoConf

NextQuery ==
    \/ Spawn
    \/ \E s \in Services : TrackCycle(s)

SpecQuery == InitQuery /\ [][NextQuery]_vars

\* URLCommandSlice.run on its own: every program of up to MaxProgramLen
\* commands of EngineCommands on every text of EngineTexts, one pass of its
\* loop at a time.
MaxProgramLen == 2

EngineIndices == {0, 1, 0 - 3}
RegexDigits == <<"[", "0", "-", "9", "]", "+">>

EngineCommands ==
    { URLCommand("split", << >>, i, << >>, << >>, <<",">>, g) :
          i \in EngineIndices, g \in {"y", "n"} }
    \cup { URLCommand("regex", RegexDigits, i, << >>, << >>, << >>, g) :
          i \in EngineIndices, g \in {"y", "n"} }
    \cup { URLCommand("regex_submatch", RegexSubmatchV, i, << >>, << >>, << >>, g) :
          i \in EngineIndices, g \in {"y", "n"} }
    \cup { URLCommand("replace", << >>, 0, <<"v">>, << >>, << >>, "n") }

EnginePrograms == UNION { [1..n -> EngineCommands] : n \in 1..MaxProgramLen }

EngineTexts == { <<"v", "1", ",", "2">>, <<"v", "1">>, <<"a">>, << >> }

InitEngine ==
    /\ cfg = 1
    /\ tracking = 0
    /\ trackers = << >>
    /\ status = [s \in Services |-> StatusInit]
    /\ cycles = [s \in Services |-> 0]
    /\ last = [s \in Services |-> NoQuery]
    /\ exited = ""
    /\ fanouts = << >>
    /\ senders = << >>
    /\ warnings = [s \in Services |-> NoWarnings]
    /\ conf = NoConf
    /\ \E p \in EnginePrograms, t \in EngineTexts :
           eng = [cmds |-> p, text |-> t, k |-> 1, pc |-> "running", prev |-> t,
                  miss |-> {}]

\* One pass of the loop of URLCommandSlice.run: command k runs on the text;
\* an error ends the run, else the next command follows or the run returns.
\* prev is the text the command was given, miss the misses it met.
CommandStep ==
    LET Then(r) ==
            eng' = [eng EXCEPT
                      !.prev = eng.text,
                      !.miss = r.miss,
                      !.text = IF r.panic THEN @ ELSE r.text,
                      !.k = IF r.panic \/ r.err THEN @ ELSE @ + 1,
                      !.pc = IF r.panic THEN "panic"
                             ELSE IF r.err THEN "error"
                             ELSE IF eng.k = Len(eng.cmds) THEN "returned"
                             ELSE "running"]
    IN  /\ eng.pc = "running"
        /\ Then(CmdRun(eng.cmds[eng.k], eng.text))
        /\ UNCHANGED << cfg, tracking, trackers, status, cycles, last, exited, fanouts,
                        senders, warnings, conf >>

SpecEngine == InitEngine /\ [][CommandStep]_vars

\* ------------------------------------------------------------------------
\* the icons of a chat payload, from the configuration file to Slack.send
\* ------------------------------------------------------------------------

\* Defaults.setDefaults, for the icons of SlackDefaults: the emoji :github:
\* if neither is given.
DefaultIcons(d) ==
    IF d.IconEmoji = << >> /\ d.IconURL = << >>
    THEN [d EXCEPT !.IconEmoji = <<":", "g", ":">>]
    ELSE d

\* Slack.setDefaults, for the icons: a recipient without any icon takes both
\* icons of the defaults.
SlackSetDefaultIcons(s, d) ==
    IF s.IconEmoji = << >> /\ s.IconURL = << >>
    THEN [s EXCEPT !.IconEmoji = ValueOrValueString(s.IconEmoji, d.IconEmoji),
                   !.IconURL = ValueOrValueString(s.IconURL, d.IconURL)]
    ELSE s

\* The icons of the SlackPayload that Slack.send of recipient s builds for
\* Service svc: the override's values before the recipient's, and the
\* override's emoji clears the URL, else the override's URL clears the emoji.
SlackPayloadIcons(s, svc) ==
    LET Cleared(p) ==
            IF svc.Slack.IconEmoji # << >> THEN [p EXCEPT !.IconURL = << >>]
            ELSE IF svc.Slack.IconURL # << >> THEN [p EXCEPT !.IconEmoji = << >>]
            ELSE p
    IN  Cleared([IconEmoji |-> ValueOrValueString(svc.Slack.IconEmoji, s.IconEmoji),
                 IconURL |-> ValueOrValueString(svc.Slack.IconURL, s.IconURL)])

NoIcons == [IconEmoji |-> << >>, IconURL |-> << >>]

\* The icons a configuration file can give in one place: none, one, or both.
IconsOf(emoji, url) ==
    [IconEmoji : {<< >>, emoji}, IconURL : {<< >>, url}]

\* The other variables while a configuration is looked at on its own.
NothingRuns ==
    /\ cfg = 1
    /\ tracking = 0
    /\ trackers = << >>
    /\ status = [s \in Services |-> StatusInit]
    /\ cycles = [s \in Services |-> 0]
    /\ last = [s \in Services |-> NoQuery]
    /\ exited = ""
    /\ fanouts = << >>
    /\ senders = << >>
    /\ warnings = [s \in Services |-> NoWarnings]
    /\ eng = NoEngine

\* The configuration as getConf read it: the icons of the defaults, of one
\* recipient and of the override of one Service.
InitIcons ==
    /\ NothingRuns
    /\ \E d \in IconsOf(<<":", "d", ":">>, <<"D">>),
          s \in IconsOf(<<":", "s", ":">>, <<"S">>),
          o \in IconsOf(<<":", "o", ":">>, <<"O">>) :
           conf = [pc |-> "read", defaults |-> d, slack |-> s, override |-> o,
                   svc |-> NoIcons, payload |-> NoIcons]

\* Config.setDefaults: the defaults of the defaults, then those of the
\* recipient.
IconsSetDefaults ==
    /\ conf.pc = "read"
    /\ conf' = [conf EXCEPT
           !.pc = "ready",
           !.defaults = DefaultIcons(@),
           !.slack = SlackSetDefaultIcons(@, DefaultIcons(conf.defaults))]
    /\ UNCHANGED << cfg, tracking, trackers, status, cycles, last, exited, fanouts,
                    senders, warnings, eng >>

\* Slack.send builds its payload, for the Service with the override or for
\* the Service{ID} of a failure message, which has none.
IconsSend ==
    /\ conf.pc \in {"ready", "sent"}
    /\ \E o \in {conf.override, NoIcons} :
           conf' = [conf EXCEPT !.pc = "sent", !.svc = o,
                                !.payload = SlackPayloadIcons(conf.slack, [Slack |-> o])]
    /\ UNCHANGED << cfg, tracking, trackers, status, cycles, last, exited, fanouts,
                    senders, warnings, eng >>

SpecIcons == InitIcons /\ [][IconsSetDefaults \/ IconsSend]_vars

\* ------------------------------------------------------------------------
\* the durations of the configuration, as checkValues validates them
\* ------------------------------------------------------------------------

\* The units of time.ParseDuration.
DurationUnits ==
    { <<"n", "s">>, <<"u", "s">>, <<"m", "s">>, <<"s">>, <<"m">>, <<"h">> }

\* time.ParseDuration on s from position i on, after at least one group: the
\* rest is empty or a run of digits, a unit, and so on.  No string of the
\* model has a fraction.
RECURSIVE DurationGroups(_, _)
DurationGroups(s, i) ==
    LET Unit(j, k) == /\ j > i
                      /\ k > j
                      /\ SubSeq(s, j, k - 1) \in DurationUnits
                      /\ DurationGroups(s, k)
        Digit(j) == Unit(j, MinOf({ k \in j..(Len(s) + 1) : k = Len(s) + 1 \/ s[k] \in Digits }))
    IN  \/ i > Len(s)
        \/ Digit(MinOf({ j \in i..(Len(s) + 1) : j = Len(s) + 1 \/ s[j] \notin Digits }))

\* time.ParseDuration(s) returns no error: an optional sign, then "0" or one
\* or more groups of digits and a unit.
ParseDurationOK(s) ==
    LET Unsigned(u) == u = <<"0">> \/ (u # << >> /\ DurationGroups(u, 1))
    IN  Unsigned(IF Len(s) > 0 /\ s[1] \in {"+", "-"} THEN Tail(s) ELSE s)

\* The check of one duration by checkValues: seconds is whether this check
\* defaults an integer to seconds (strconv.Atoi succeeds, so "s" is appended);
\* a value that time.ParseDuration rejects ends the process.
CheckDuration(d, seconds) ==
    LET Parsed(v) == [value |-> v, fatal |-> ~ParseDurationOK(v)]
    IN  IF d = << >> THEN [value |-> d, fatal |-> FALSE]
        ELSE Parsed(IF seconds /\ IsInt(d) THEN d \o <<"s">> ELSE d)

\* The durations checkValues validates: the interval of a Service and the
\* delay of its chat override (Service.checkValues), and the delay of a chat,
\* a webhook and a push recipient.
DurationFields ==
    { "service.interval", "service.slack.delay", "slack.delay", "webhook.delay",
      "gotify.delay" }

\* checkValues for the duration of this field: the delay of the chat override
\* of a Service is parsed as it is.
CheckValues(field, d) == CheckDuration(d, field # "service.slack.delay")

\* The strings a configuration file can give for a duration.
MaxDurationLen == 3
DurationChars == { "0", "1", "s", "m", "h", "-" }
DurationStrings ==
    UNION { [1..n -> DurationChars] : n \in 0..MaxDurationLen }

\* The configuration as getConf read it: one duration.
InitDurations ==
    /\ NothingRuns
    /\ \E f \in DurationFields, d \in DurationStrings :
           conf = [pc |-> "read", field |-> f, read |-> d, value |-> d,
                   once |-> d, checks |-> 0]

\* One call of checkValues for the field: ServiceSlice.setDefaults makes one
\* and Config.setDefaults the next.  once is the value after the first call.
DurationCheckValues ==
    LET Checked(r) ==
            conf' = [conf EXCEPT
                !.pc = IF r.fatal THEN "exited" ELSE "checked",
                !.value = r.value,
                !.once = IF conf.checks = 0 THEN r.value ELSE @,
                !.checks = @ + 1]
    IN  /\ conf.pc \in {"read", "checked"}
        /\ conf.checks < 2
        /\ Checked(CheckValues(conf.field, conf.value))
        /\ UNCHANGED << cfg, tracking, trackers, status, cycles, last, exited, fanouts,
                        senders, warnings, eng >>

SpecDurations == InitDurations /\ [][DurationCheckValues]_vars

\* ------------------------------------------------------------------------
\* the extraction-miss mask: two runs of one Service over the same answers
\* ------------------------------------------------------------------------

\* The masks status.serviceMisses can hold: four characters, each 0 or 1.
Masks == [1..4 -> {"0", "1"}]

\* What a query leaves to be seen: the value it returns or the way it ends
\* the process, the calls of send it makes the Tracker start, and the classes
\* of miss it logs a warning for.
Outcome(s, st, resp, r) ==
    [ret |-> IF r.exit # "" THEN r.exit ELSE IF r.ret THEN "true" ELSE "false",
     sends |-> IF r.exit = "" /\ r.ret THEN ReleaseFanouts(s, r.status.version)
               ELSE << >>,
     warned |-> MissWarnings(st, IF resp.kind = "body"
                                 THEN Extractions[cfg][s][resp.body].miss ELSE {})]

NoOutcome == [ret |-> "none", sends |-> << >>, warned |-> {}]

\* Two runs of the Service of a Monitor of QueryScenarios, a and b, whose
\* statuses before the first query differ in the mask at most.  top is the
\* greatest semantic version run a has stored so far, if the Service has
\* progressive versions.
InitMasks ==
    /\ cfg \in QueryScenarios
    /\ tracking = 0
    /\ trackers = << >>
    /\ status = [s \in Services |-> StatusInit]
    /\ cycles = [s \in Services |-> 0]
    /\ last = [s \in Services |-> NoQuery]
    /\ exited = ""
    /\ fanouts = << >>
    /\ senders = << >>
    /\ warnings = [s \in Services |-> NoWarnings]
    /\ eng = NoEngine
    /\ \E ma \in Masks, mb \in Masks :
           conf = [pc |-> "runs", n |-> 0,
                   a |-> [StatusInit EXCEPT !.serviceMisses = ma],
                   b |-> [StatusInit EXCEPT !.serviceMisses = mb],
                   outA |-> NoOutcome, outB |-> NoOutcome, top |-> << >>]

\* Both runs make their next query and read the same answer.
MaskedQueries ==
    LET Top(v) ==
            IF /\ Mon.Service[1].ProgressiveVersioning = "y"
               /\ SemverOK(v)
               /\ \/ conf.top = << >>
                  \/ SemverCompare(SemverOf(v), SemverOf(conf.top)) > 0
            THEN v ELSE conf.top
        Both(resp, ra, rb) ==
            conf' = [conf EXCEPT
                !.pc = IF ra.exit # "" \/ rb.exit # "" THEN "exited" ELSE "runs",
                !.n = @ + 1,
                !.a = ra.status,
                !.b = rb.status,
                !.outA = Outcome(1, conf.a, resp, ra),
                !.outB = Outcome(1, conf.b, resp, rb),
                !.top = Top(ra.status.version)]
    IN  /\ conf.pc = "runs"
        /\ conf.n < MaxCycles
        /\ \E resp \in Scenarios[cfg].answers :
               Both(resp, Poll(cfg, 1, conf.a, resp), Poll(cfg, 1, conf.b, resp))
        /\ UNCHANGED << cfg, tracking, trackers, status, cycles, last, exited, fanouts,
                        senders, warnings, eng >>

SpecMasks == InitMasks /\ [][MaskedQueries]_vars

\* ------------------------------------------------------------------------
\* the properties of the query cycle, for SpecQuery
\* ------------------------------------------------------------------------

\* C1: for every Service, the query cycle that changes status.version from
\* empty to a non-empty value (the seed) returns false, and no call of send
\* and no sender is started in that cycle.
C1_SeedReturnsFalse ==
    [][\A s \in Services :
          (status[s].version = << >> /\ status'[s].version # << >>)
              => /\ last'[s].ret = "false"
                 /\ fanouts' = fanouts
                 /\ senders' = senders]_vars

\* A Service has just been seeded by its first accepted version.
C1_Seeded ==
    \E s \in Services :
        /\ last[s].before = << >>
        /\ status[s].version # << >>
        /\ last[s].branch = "seed"

\* C2: query returns true if and only if, in that cycle, status.version was
\* non-empty beforehand and was replaced by a different extracted version that
\* passed the progressive check and both regex filters.  (A cycle that ends
\* the process returns nothing.)
C2_TrueIffReplaced ==
    [][\A s \in Services :
          cycles'[s] # cycles[s] =>
              LET Passed(x) ==
                      /\ x.branch = "extracted"
                      /\ status'[s].version = x.version
                      /\ ~(/\ Mon.Service[s].ProgressiveVersioning = "y"
                           /\ SemverOK(status[s].version)
                           /\ SemverOK(x.version)
                           /\ LessThan(SemverOf(x.version),
                                       SemverOf(status[s].version)))
                      /\ x.contentCheck \in {"none", "match"}
                      /\ x.versionCheck \in {"none", "match"}
              IN  (last'[s].ret = "true") <=>
                      /\ status[s].version # << >>
                      /\ status'[s].version # status[s].version
                      /\ last'[s].resp.kind = "body"
                      /\ Passed(Extractions[cfg][s][last'[s].resp.body])]_vars

\* A query has just returned true, having replaced a stored version.
C2_Released ==
    \E s \in Services :
        /\ last[s].ret = "true"
        /\ last[s].before # << >>
        /\ status[s].version # last[s].before
        /\ status[s].version = last[s].version

\* C4: every query cycle that returns false, other than the seed cycle,
\* leaves status.version unchanged.
C4_FalseKeepsVersion ==
    [][\A s \in Services :
          (/\ cycles'[s] # cycles[s]
           /\ last'[s].ret = "false"
           /\ ~(status[s].version = << >> /\ status'[s].version # << >>))
              => status'[s].version = status[s].version]_vars

\* A query of a seeded Service has just returned false for a version that
\* regex_version rejects.
C4_Rejected ==
    \E s \in Services :
        /\ last[s].ret = "false"
        /\ last[s].before # << >>
        /\ status[s].version = last[s].before
        /\ last[s].branch = "version-miss"
        /\ status[s].regexMissesVersion = 1

\* C5: with progressive_versioning on and status.version non-empty, if the
\* stored and the newly extracted version both parse as semantic versions and
\* the new one is strictly less than the stored one, query returns false
\* without changing status.version or either regex-miss counter, and no call
\* of send is started.
C5_NoRegression ==
    [][\A s \in Services :
          LET Older(x) ==
                  /\ x.branch = "extracted"
                  /\ SemverOK(status[s].version)
                  /\ SemverOK(x.version)
                  /\ LessThan(SemverOf(x.version), SemverOf(status[s].version))
          IN  (/\ cycles'[s] # cycles[s]
               /\ Mon.Service[s].ProgressiveVersioning = "y"
               /\ status[s].version # << >>
               /\ last'[s].resp.kind = "body"
               /\ Older(Extractions[cfg][s][last'[s].resp.body]))
                  => /\ last'[s].ret = "false"
                     /\ status'[s].version = status[s].version
                     /\ status'[s].regexMissesContent = status[s].regexMissesContent
                     /\ status'[s].regexMissesVersion = status[s].regexMissesVersion
                     /\ fanouts' = fanouts
                     /\ senders' = senders]_vars

\* A query of a progressive Service has just read a version that is less than
\* the stored one, both semantic versions.
C5_Regressed ==
    \E s \in Services :
        /\ Mon.Service[s].ProgressiveVersioning = "y"
        /\ last[s].before # << >>
        /\ SemverOK(last[s].before)
        /\ SemverOK(last[s].version)
        /\ SemverCompare(SemverOf(last[s].version), SemverOf(last[s].before)) < 0

\* C6: for every Service with progressive_versioning on and every pair of
\* versions stored one after the other in status.version: if both parse as
\* semantic versions, the second is greater than or equal to the first.
C6_Progressive ==
    [][\A s \in Services :
          (/\ Mon.Service[s].ProgressiveVersioning = "y"
           /\ status'[s].version # status[s].version
           /\ SemverOK(status[s].version)
           /\ SemverOK(status'[s].version))
              => SemverCompare(SemverOf(status'[s].version),
                               SemverOf(status[s].version)) >= 0]_vars

\* A progressive Service has just replaced one semantic version by another.
C6_Replaced ==
    \E s \in Services :
        /\ Mon.Service[s].ProgressiveVersioning = "y"
        /\ last[s].before # << >>
        /\ status[s].version # last[s].before
        /\ SemverOK(last[s].before)
        /\ SemverOK(status[s].version)

\* ------------------------------------------------------------------------
\* the properties of the calls of send and of the senders, for Spec
\* ------------------------------------------------------------------------

\* C3: in a Tracker cycle, calls of send are started only if that cycle's
\* query returned true; when it did, one call is started for each of push,
\* chat and webhook whose skip flag is off on the Service, and none for a kind
\* whose skip flag is on; a call starts one sender per recipient of the
\* Monitor's list of its kind, in the order of the list.
C3_LaunchOnTrue ==
    [][/\ \A s \in Services :
             cycles'[s] # cycles[s] =>
                 /\ senders' = senders
                 /\ SubSeq(fanouts', 1, Len(fanouts)) = fanouts
                 /\ last'[s].ret # "true" => fanouts' = fanouts
                 /\ last'[s].ret = "true" =>
                       \A kind \in {"gotify", "slack", "webhook"} :
                           Cardinality({ f \in (Len(fanouts) + 1)..Len(fanouts') :
                                           /\ fanouts'[f].kind = kind
                                           /\ fanouts'[f].svc = s
                                           /\ fanouts'[f].owner = 0
                                           /\ fanouts'[f].pc = "new" })
                             = IF CASE kind = "gotify" -> Mon.Service[s].SkipGotify
                                    [] kind = "slack" -> Mon.Service[s].SkipSlack
                                    [] OTHER -> Mon.Service[s].SkipWebHook
                               THEN 0 ELSE 1
       /\ \A f \in 1..Len(fanouts') :
             LET Passes(n) ==
                     /\ n <= Len(Recipients(fanouts'[f].kind))
                     /\ fanouts'[f].pc = "done" => n = Len(Recipients(fanouts'[f].kind))
                     /\ \A k \in 0..(n - 1) :
                           \E i \in 1..Len(senders') :
                               senders'[i].fan = f /\ senders'[i].pass = k
             IN  Passes(Cardinality({ i \in 1..Len(senders') : senders'[i].fan = f }))
      ]_vars

\* A query of a Service that skips push and chat has returned true and has
\* started the webhook call alone, and a call of send has gone through a list
\* of two recipients.
C3_Launched ==
    /\ \E s \in Services :
          /\ last[s].ret = "true"
          /\ Mon.Service[s].SkipGotify
          /\ ~Mon.Service[s].SkipWebHook
          /\ last[s].launched = << "webhook" >>
    /\ \E f \in 1..Len(fanouts) :
          /\ fanouts[f].pc = "done"
          /\ Len(Recipients(fanouts[f].kind)) = 2

\* C7: for a recipient with max_tries = N >= 1, one sender makes at most N
\* send attempts, makes no further attempt after the first successful one, and
\* gives up exactly when N attempts have all failed.
C7_Tries ==
    [][\A i \in 1..Len(senders') :
          LET Bounded(sn, N) ==
                  (sn.pc # "launched" /\ N >= 1) =>
                      /\ sn.attempts <= N
                      /\ sn.sent <= 1
                      /\ (sn.sent = 1) <=> (sn.pc = "succeeded")
                      /\ (sn.pc \in {"gaveup", "escalating", "escalated"})
                             <=> (sn.attempts = N /\ sn.sent = 0)
          IN  /\ Bounded(senders'[i],
                         Recipients(fanouts'[senders'[i].fan].kind)[senders'[i].index + 1].MaxTries)
              /\ (i <= Len(senders) /\ senders[i].sent >= 1)
                     => senders'[i].attempts = senders[i].attempts
      ]_vars

\* A sender has given up after two failed attempts, and another has succeeded
\* at its second attempt.
C7_GaveUp ==
    /\ \E i \in 1..Len(senders) :
          /\ senders[i].pc = "gaveup"
          /\ senders[i].attempts = 2
          /\ RecipientOf(senders[i]).MaxTries = 2
    /\ \E j \in 1..Len(senders) :
          /\ senders[j].pc = "succeeded"
          /\ senders[j].attempts = 2

\* C8: for every webhook recipient R with silent_fails = false: if R's
\* sender gives up, exactly one failure message ("Failed <max_tries> times to
\* send a WebHook to <url>") is sent to each chat recipient and each push
\* recipient of the same Monitor, and none before R's last attempt has failed.
\* A sender that has not started yet counts for the recipient of its loop pass.
C8_OneEscalationEach ==
    /\ \A f \in 1..Len(fanouts) :
          fanouts[f].owner # 0 =>
              /\ senders[fanouts[f].owner].sent = 0
              /\ senders[fanouts[f].owner].attempts
                     = RecipientOf(senders[fanouts[f].owner]).MaxTries
              /\ fanouts[f].message =
                     FailMessage(Mon.Service[fanouts[f].service].ID, Mon.ID,
                                 RecipientOf(senders[fanouts[f].owner]))
    /\ \A i \in 1..Len(senders) :
          senders[i].pc = "escalated" =>
              \A kind \in {"slack", "gotify"} :
                  \E f \in 1..Len(fanouts) :
                      /\ fanouts[f].owner = i
                      /\ fanouts[f].kind = kind
                      /\ \A k \in 0..(Len(Recipients(kind)) - 1) :
                            Cardinality({ j \in 1..Len(senders) :
                                            /\ senders[j].fan = f
                                            /\ k = IF senders[j].pc = "launched"
                                                   THEN senders[j].pass
                                                   ELSE senders[j].index }) = 1

\* C9: no failure message is sent when a webhook sender succeeds within its
\* tries, when the webhook has silent_fails set, or when a push or chat sender
\* gives up; so the sender of a failure message never causes another, and the
\* senders caused by one release are at most one per recipient plus, per
\* webhook, one per chat and per push recipient.
C9_EscalationOnlyFromWebHook ==
    /\ \A f \in 1..Len(fanouts) :
          fanouts[f].owner # 0 =>
              LET From(sn) ==
                      /\ fanouts[sn.fan].kind = "webhook"
                      /\ fanouts[sn.fan].owner = 0
                      /\ RecipientOf(sn).SilentFails = "n"
                      /\ sn.sent = 0
                      /\ sn.pc \in {"escalating", "escalated"}
              IN  /\ fanouts[f].kind \in {"slack", "gotify"}
                  /\ From(senders[fanouts[f].owner])
    /\ \A i \in 1..Len(senders) :
          senders[i].pc \in {"succeeded", "gaveup"} =>
              \A f \in 1..Len(fanouts) : fanouts[f].owner # i
    /\ \A s \in Services :
          \A v \in { fanouts[f].version : f \in 1..Len(fanouts) } :
              Cardinality({ i \in 1..Len(senders) :
                              /\ fanouts[senders[i].fan].service = s
                              /\ fanouts[senders[i].fan].version = v })
                <= Len(Mon.Gotify) + Len(Mon.Slack)
                     + Len(Mon.WebHook) * (1 + Len(Mon.Gotify) + Len(Mon.Slack))

\* A sender of a silent webhook and a chat sender have given up, and no
\* failure message exists.
C9_SilentGaveUp ==
    /\ \E i \in 1..Len(senders) :
          /\ fanouts[senders[i].fan].kind = "webhook"
          /\ senders[i].pc = "gaveup"
          /\ RecipientOf(senders[i]).SilentFails = "y"
    /\ \E j \in 1..Len(senders) :
          /\ fanouts[senders[j].fan].kind = "slack"
          /\ senders[j].pc = "gaveup"
    /\ \A f \in 1..Len(fanouts) : fanouts[f].owner = 0

\* C10: a chat or push notification started for a Service's transition to
\* version V resolves ${version} to V, whatever the Tracker accepts before the
\* message is sent.
C10_VersionOfTransition ==
    \A i \in 1..Len(senders) :
        LET Sent(sn, fo) ==
                (sn.attempts >= 1 /\ fo.owner = 0 /\ fo.kind \in {"slack", "gotify"})
                    => sn.text =
                         IF fo.kind = "slack"
                         THEN SlackText(RecipientOf(sn), Mon.ID, ServiceOf(fo),
                                        fo.version, fo.message).text
                         ELSE GotifyText(RecipientOf(sn), Mon.ID, ServiceOf(fo),
                                         fo.version, fo.message).text
        IN  Sent(senders[i], fanouts[senders[i].fan])

\* ------------------------------------------------------------------------
\* the properties of errors in a poll cycle
\* ------------------------------------------------------------------------

\* C11: once a Tracker runs, no error of a poll cycle (transport or TLS
\* error, any body, extraction miss, filter miss, semantic version that does
\* not parse) ends the Tracker loop or the process: the process runs on, and
\* every cycle that accepted nothing returned false.
C11_ErrorsNeverAbort ==
    /\ exited = ""
    /\ \A s \in Services :
          (last[s].ret # "none" /\ last[s].branch \notin {"seed", "new"})
              => last[s].ret = "false"

\* C12: when a URL command misses and its ignore_miss is not set, the
\* engine returns an error to query (the commands after it are not run), and
\* query returns false without storing a version and without starting a call
\* of send.
C12_MissAborts ==
    [][\A s \in Services :
          LET Missed(x) == \E m \in x.miss : m[2] = "n"
              Aborted(x) ==
                  /\ x.branch = "command-error"
                  /\ last'[s].ret = "false"
                  /\ status'[s].version = status[s].version
                  /\ fanouts' = fanouts
                  /\ senders' = senders
          IN  (/\ cycles'[s] # cycles[s]
               /\ last'[s].resp.kind = "body"
               /\ Missed(Extractions[cfg][s][last'[s].resp.body]))
                  => Aborted(Extractions[cfg][s][last'[s].resp.body])]_vars

\* C13: when a URL command misses and its ignore_miss is set, the text the
\* next command is given is the text this command was given, and the run goes
\* on with the next command.
C13_IgnoredMissKeepsText ==
    [][(/\ eng.pc = "running"
        /\ eng'.k # eng.k \/ eng'.pc # eng.pc
        /\ eng'.pc # "panic"
        /\ \E m \in eng'.miss : m[2] = "y")
           => /\ eng'.text = eng.text
              /\ eng'.k = eng.k + 1
              /\ eng'.pc = IF eng.k = Len(eng.cmds) THEN "returned" ELSE "running"]_vars

\* The second command of a program has missed with ignore_miss set, after a
\* first command that changed the text, and the run has returned the text the
\* second command was given.
C13_IgnoredMiss ==
    /\ eng.pc = "returned"
    /\ eng.k = 3
    /\ \E m \in eng.miss : m[2] = "y"
    /\ eng.text = eng.prev
    /\ eng.text = <<"1">>

\* C14: a program whose commands all have ignore_miss set never aborts,
\* whatever the text and the indices: it neither returns an error nor
\* panics.
C14_IgnoreAllNeverAborts ==
    (\A k \in 1..Len(eng.cmds) : eng.cmds[k].IgnoreMiss = "y")
        => eng.pc \notin {"error", "panic"}

\* C15: for each Service and each miss class k of 0..3, at most one warning
\* is logged while the process runs, however many queries miss in class k.
C15_OneWarningPerClass ==
    \A s \in Services : \A k \in 1..4 : warnings[s][k] <= 1

\* ------------------------------------------------------------------------
\* the properties of the accepted version
\* ------------------------------------------------------------------------

\* C16: after every cycle that accepts a version (seed or new release),
\* status.version is what URLCommandSlice.run returns for the Service's
\* commands on that cycle's seed text: the tag_name value for a github
\* Service, the whole body otherwise.
C16_VersionIsExtraction ==
    [][\A s \in Services :
          LET Output(svc, body) ==
                  URLCommandsRun(svc.URLCommands,
                                 IF svc.Type = "github" THEN GitHubVersion(body).text
                                 ELSE body).text
          IN  (cycles'[s] # cycles[s] /\ status'[s].version # status[s].version)
                  => /\ last'[s].resp.kind = "body"
                     /\ status'[s].version
                            = Output(Mon.Service[s], Bodies[last'[s].resp.body])]_vars

\* A query has just accepted a version that its URL commands cut out of the
\* seed text.
C16_Accepted ==
    \E s \in Services :
        /\ last[s].branch \in {"seed", "new"}
        /\ status[s].version = last[s].version
        /\ Mon.Service[s].URLCommands # << >>
        /\ Len(status[s].version) < Len(Bodies[last[s].resp.body])

\* C17: with progressive_versioning on and status.version non-empty, if the
\* stored or the newly extracted version does not parse as a semantic version,
\* the ordering check is skipped: provided the regex filters pass, the new
\* version is stored and query returns true.
C17_FailOpen ==
    [][\A s \in Services :
          LET Unparsed(x) ==
                  /\ x.branch = "extracted"
                  /\ x.version # status[s].version
                  /\ ~SemverOK(status[s].version) \/ ~SemverOK(x.version)
                  /\ x.contentCheck \in {"none", "match"}
                  /\ x.versionCheck \in {"none", "match"}
              Stored(x) ==
                  /\ last'[s].ret = "true"
                  /\ status'[s].version = x.version
          IN  (/\ cycles'[s] # cycles[s]
               /\ Mon.Service[s].ProgressiveVersioning = "y"
               /\ status[s].version # << >>
               /\ last'[s].resp.kind = "body"
               /\ Unparsed(Extractions[cfg][s][last'[s].resp.body]))
                  => Stored(Extractions[cfg][s][last'[s].resp.body])]_vars

\* A progressive Service whose stored version did not parse has just accepted
\* a semantic version, the stored version having been accepted after a
\* semantic one.
C17_Unparsed ==
    \E s \in Services :
        /\ Mon.Service[s].ProgressiveVersioning = "y"
        /\ last[s].ret = "true"
        /\ last[s].before # << >>
        /\ ~SemverOK(last[s].before)
        /\ SemverOK(status[s].version)
        /\ status[s].version = last[s].version

\* C18: whenever a Service has regex_version, every value stored in
\* status.version (the seed included) matches it, and with regex_content the
\* body of the cycle that stored the value matched the content pattern with
\* that version put in.
C18_StoredVersionsMatch ==
    [][\A s \in Services :
          LET Matches(svc, v, body) ==
                  /\ svc.RegexVersion # << >>
                        => RegexCheck(svc.RegexVersion, v) = "match"
                  /\ svc.RegexContent # << >>
                        => RegexCheckContent(svc.RegexContent, body, v) = "match"
          IN  status'[s].version # status[s].version
                  => /\ last'[s].resp.kind = "body"
                     /\ Matches(Mon.Service[s], status'[s].version,
                                Bodies[last'[s].resp.body])]_vars

\* A Service with both filters has stored a seed and then a new version.
C18_Filtered ==
    \E s \in Services :
        /\ Mon.Service[s].RegexVersion # << >>
        /\ Mon.Service[s].RegexContent # << >>
        /\ last[s].branch = "new"
        /\ status[s].version = last[s].version
        /\ last[s].before # << >>

\* ------------------------------------------------------------------------
\* the properties of a webhook attempt
\* ------------------------------------------------------------------------

\* C19: a webhook attempt succeeds if and only if the answer's status is
\* desired_status_code, or desired_status_code is 0 and the status is a 2xx;
\* every other answer and every transport error or time-out is a failure that
\* takes one try.
C19_WebHookSuccess ==
    [][\A i \in 1..Len(senders) :
          LET Success(w, res) ==
                  /\ ~res.err
                  /\ \/ res.code = w.DesiredStatusCode
                     \/ w.DesiredStatusCode = 0 /\ res.code \in 200..299
              Judged(w, res) ==
                  IF Success(w, res)
                  THEN /\ senders'[i].sent = senders[i].sent + 1
                       /\ senders'[i].pc = "succeeded"
                       /\ senders'[i].triesLeft = senders[i].triesLeft
                  ELSE /\ senders'[i].sent = senders[i].sent
                       /\ senders'[i].pc # "succeeded"
                       /\ senders'[i].triesLeft = senders[i].triesLeft - 1
          IN  (/\ fanouts[senders[i].fan].kind = "webhook"
               /\ senders'[i].attempts = senders[i].attempts + 1)
                  => Judged(RecipientOf(senders[i]), senders'[i].res)]_vars

\* A webhook without a desired status code has been answered 200 and has
\* succeeded, and a webhook that wants 202 has been answered 200 and has not.
C19_Answered200 ==
    \E i \in 1..Len(senders) :
        /\ fanouts[senders[i].fan].kind = "webhook"
        /\ senders[i].attempts = 2
        /\ senders[i].res = [err |-> FALSE, code |-> 200]
        /\ \/ RecipientOf(senders[i]).DesiredStatusCode = 0 /\ senders[i].pc = "succeeded"
           \/ RecipientOf(senders[i]).DesiredStatusCode = 202 /\ senders[i].pc = "gaveup"

\* C20: in every webhook attempt, retries with their fresh random body
\* included, X-Hub-Signature-256 and X-Hub-Signature are the HMAC-SHA256 and
\* the HMAC-SHA1 of the body sent in that attempt, under the recipient's
\* secret.
C20_SignaturesOfBody ==
    \A i \in 1..Len(senders) :
        LET Signed(w, req) ==
                /\ req.sig256 = [prefix |-> "sha256=",
                                 mac |-> [alg |-> "sha256", key |-> w.Secret, body |-> req.body]]
                /\ req.sig1 = [prefix |-> "sha1=",
                               mac |-> [alg |-> "sha1", key |-> w.Secret, body |-> req.body]]
                /\ req.body \in Payloads
        IN  (fanouts[senders[i].fan].kind = "webhook" /\ senders[i].attempts >= 1)
                => Signed(RecipientOf(senders[i]), senders[i].req)

\* A webhook sender has made its second attempt, with the other random body.
C20_Retried ==
    \E i \in 1..Len(senders) :
        /\ fanouts[senders[i].fan].kind = "webhook"
        /\ senders[i].attempts = 2
        /\ senders[i].req.body = <<"b", "2">>
        /\ senders[i].req.sig1.mac.body = <<"b", "2">>

\* ------------------------------------------------------------------------
\* the properties of the configuration
\* ------------------------------------------------------------------------

\* C21: no chat payload carries both a non-empty icon_emoji and a non-empty
\* icon_url, whatever the recipient, the defaults and the override of the
\* Service give; and an icon the override sets is the one that is sent.
C21_OneIcon ==
    conf.pc = "sent" =>
        /\ ~(conf.payload.IconEmoji # << >> /\ conf.payload.IconURL # << >>)
        /\ conf.svc.IconEmoji # << >> =>
               conf.payload = [IconEmoji |-> conf.svc.IconEmoji, IconURL |-> << >>]
        /\ (conf.svc.IconEmoji = << >> /\ conf.svc.IconURL # << >>) =>
               conf.payload = [IconEmoji |-> << >>, IconURL |-> conf.svc.IconURL]

\* C22: for a code-forge Service and a body of fewer than 500 bytes: with
\* "Bad credentials" in it the process exits; with "rate limit" in it a
\* warning is logged and the cycle returns false; with none of "tag_name",
\* "rate limit" and "Bad credentials" in it the tag-not-found error is logged
\* and the cycle returns false; where the process goes on, status is as it
\* was.
C22_SmallBody ==
    \A s \in Services :
        LET Handled(q, b) ==
                /\ Contains(b, BadCredentials) =>
                       q.ret = "exit" /\ q.branch = "bad-credentials" /\ exited = "fatal"
                /\ (Contains(b, RateLimit) /\ ~Contains(b, BadCredentials)) =>
                       /\ q.ret = "false"
                       /\ q.branch = "rate-limit"
                       /\ status[s].version = q.before
                /\ (~Contains(b, TagName) /\ ~Contains(b, RateLimit)
                        /\ ~Contains(b, BadCredentials)) =>
                       /\ q.ret = "false"
                       /\ q.branch = "tag-not-found"
                       /\ status[s].version = q.before
        IN  (/\ Mon.Service[s].Type = "github"
             /\ last[s].resp.kind = "body"
             /\ Len(Bodies[last[s].resp.body]) < SmallBodyLen)
                => Handled(last[s], Bodies[last[s].resp.body])

\* C23: with progressive_versioning on and status.version empty, a version
\* (a non-empty text) that passes the filters and does not parse as a
\* semantic version ends the process, and status.version stays empty.
C23_UnparsedSeedIsFatal ==
    \A s \in Services :
        LET Passes(svc, x) ==
                /\ x.branch = "extracted"
                /\ x.version # << >>
                /\ svc.RegexContent # << >> => x.contentCheck = "match"
                /\ svc.RegexVersion # << >> => x.versionCheck = "match"
            Fatal(q) == /\ q.ret = "exit"
                        /\ exited = "fatal"
                        /\ status[s].version = << >>
            Seeded(svc, q, x) ==
                (/\ svc.ProgressiveVersioning = "y"
                 /\ q.before = << >>
                 /\ Passes(svc, x)
                 /\ ~SemverOK(x.version)) => Fatal(q)
        IN  last[s].resp.kind = "body" =>
                Seeded(Mon.Service[s], last[s], Extractions[cfg][s][last[s].resp.body])

\* The first version read was 1.0, which passes both filters and is no
\* semantic version.
C23_SeedUnparsed ==
    \E s \in Services :
        /\ last[s].resp = [kind |-> "body", body |-> 4]
        /\ last[s].before = << >>
        /\ last[s].version = <<"1", ".", "0">>
        /\ last[s].branch = "seed-not-semver"

\* C24: checkValues turns a duration that is a bare integer N into "Ns",
\* leaves a duration of the form AhBmCs as it is, and validating a value
\* twice gives what validating it once gives; this for the interval of a
\* Service and for the delays of chat, webhook and push.
C24_Durations ==
    LET BareInteger(d) == Len(d) > 0 /\ \A k \in 1..Len(d) : d[k] \in {"0", "1"}
        AhBmCs(d) == /\ ParseDurationOK(d)
                     /\ d[1] \notin {"+", "-"}
                     /\ d[Len(d)] \in {"s", "m", "h"}
    IN  /\ (conf.pc # "idle" /\ conf.checks >= 1 /\ BareInteger(conf.read)) =>
               conf.pc = "checked" /\ conf.once = conf.read \o <<"s">>
        /\ (conf.pc # "idle" /\ conf.checks >= 1 /\ AhBmCs(conf.read)) =>
               conf.pc = "checked" /\ conf.once = conf.read
        /\ (conf.pc # "idle" /\ conf.checks = 2) =>
               conf.pc = "checked" /\ conf.value = conf.once

\* ------------------------------------------------------------------------
\* the properties of the fan-outs, the senders and the Trackers, for Spec
\* ------------------------------------------------------------------------

\* C25: a fan-out over n recipients runs exactly n senders, and the i-th
\* sender that is launched uses the configuration of the i-th recipient
\* under every interleaving of the loop and the senders: no recipient has two
\* senders of one fan-out and none is left out.
C25_OneSenderEach ==
    /\ \A f \in 1..Len(fanouts) :
          fanouts[f].pc = "done" =>
              \A k \in 0..(Len(Recipients(fanouts[f].kind)) - 1) :
                  Cardinality({ j \in 1..Len(senders) :
                                  senders[j].fan = f /\ senders[j].pass = k }) = 1
    /\ \A i \in 1..Len(senders) :
          senders[i].pc # "launched" =>
              /\ senders[i].index = senders[i].pass
              /\ senders[i].attempts = 0 =>
                     senders[i].triesLeft =
                         Recipients(fanouts[senders[i].fan].kind)[senders[i].pass + 1].MaxTries

\* C26: every sender goes Delaying -> Sending -> Succeeded, Retrying or
\* GaveUp, Retrying -> Sending, GaveUp -> Escalated: the recipient's delay is
\* slept once, before the first attempt and not before a retry; every retry
\* comes after a sleep of 10 seconds; after Succeeded, GaveUp and Escalated
\* there is no attempt.  A webhook sender that is sending its failure
\* messages ("escalating") has given up.
C26_SenderStateMachine ==
    [][\A i \in 1..Len(senders) :
          LET Moves == { <<"launched", "delaying">>,
                         <<"delaying", "succeeded">>, <<"delaying", "retrying">>,
                         <<"delaying", "gaveup">>, <<"delaying", "escalating">>,
                         <<"retrying", "succeeded">>, <<"retrying", "retrying">>,
                         <<"retrying", "gaveup">>, <<"retrying", "escalating">>,
                         <<"escalating", "escalated">> }
              Step(a, b) ==
                  /\ (a.pc # b.pc \/ a.attempts # b.attempts) => <<a.pc, b.pc>> \in Moves
                  /\ b.attempts \in {a.attempts, a.attempts + 1}
                  /\ b.attempts = a.attempts + 1 =>
                         /\ a.pc \in {"delaying", "retrying"}
                         /\ a.delays = 1
                         /\ a.backoffs = a.attempts
                         /\ (a.pc = "retrying") = (a.attempts >= 1)
                  /\ b.delays = a.delays + (IF a.pc = "launched" /\ b.pc = "delaying" THEN 1 ELSE 0)
                  /\ (a.pc # "escalating" /\ b.pc = "escalating") =>
                         /\ fanouts[a.fan].kind = "webhook"
                         /\ RecipientOf(a).SilentFails = "n"
          IN  Step(senders[i], senders'[i])]_vars

\* A sender has made its second attempt after one delay and one sleep of 10
\* seconds, and has given up.
C26_RetriedOnce ==
    \E i \in 1..Len(senders) :
        /\ senders[i].attempts = 2
        /\ senders[i].delays = 1
        /\ senders[i].backoffs = 1
        /\ senders[i].pc = "gaveup"

\* C27: the attempts of a sender never exceed max(1, max_tries), for every
\* max_tries the configuration gives, 0 included.
C27_AttemptsBounded ==
    \A i \in 1..Len(senders) :
        LET Most(n) == IF n < 1 THEN 1 ELSE n
        IN  senders[i].pc # "launched" =>
                senders[i].attempts
                    <= Most(MaxTriesRead(cfg, fanouts[senders[i].fan].kind,
                                         senders[i].index + 1))

C29_SingleWriter ==
    [][\A s \in Services :
          status'[s] # status[s] =>
              /\ cycles'[s] = cycles[s] + 1
              /\ \A o \in Services \ {s} : cycles'[o] = cycles[o]
              /\ senders' = senders
              /\ \A f \in 1..Len(fanouts) : fanouts'[f] = fanouts[f]]_vars

\* The Tracker of the second Service stored a version while a sender of the
\* first Service was at work and the first Service's status stayed.
C29_OtherTrackerWrote ==
    \E i \in 1..Len(senders) :
        /\ fanouts[senders[i].fan].service = 1
        /\ senders[i].pc \in {"delaying", "retrying"}
        /\ last[2].before = << >>
        /\ status[2].version = <<"1", ".", "0", ".", "0">>
        /\ status[1].version = <<"1", ".", "0", ".", "1">>

\* C30: the Supervisor starts exactly one Tracker for every Service, in the
\* order of the configuration, and every Service is polled in the end; so
\* the queries of one Service are made one after the other, by its one
\* Tracker, each a step of that Tracker's loop.
C30_OneTrackerEach ==
    /\ [](/\ tracking <= Len(Mon.Service)
          /\ trackers = [k \in 1..tracking |-> k]
          /\ \A s \in Services :
                /\ Cardinality({ t \in 1..Len(trackers) : trackers[t] = s })
                       = (IF s <= tracking THEN 1 ELSE 0)
                /\ cycles[s] > 0 => s <= tracking)
    /\ [][\A s \in Services : cycles'[s] \in {cycles[s], cycles[s] + 1}]_vars
    /\ \A s \in 1..MaxServices :
          <>(s \notin Services \/ exited # "" \/ (s <= tracking /\ cycles[s] >= 1))

\* Both Trackers run, started in order, and both Services have been polled,
\* the first more than once.
C30_BothPolled ==
    /\ trackers = <<1, 2>>
    /\ cycles[1] >= 2
    /\ cycles[2] >= 1

\* ------------------------------------------------------------------------
\* the properties of the regex-miss counters, for SpecQuery
\* ------------------------------------------------------------------------

C32_CountersResetOnAccept ==
    [][\A s \in Services :
          LET Same ==
                  /\ status'[s].regexMissesContent = status[s].regexMissesContent
                  /\ status'[s].regexMissesVersion = status[s].regexMissesVersion
              Kept(svc, x) ==
                  (/\ x.branch = "extracted"
                   /\ \/ x.version = status[s].version
                      \/ /\ svc.ProgressiveVersioning = "y"
                         /\ status[s].version # << >>
                         /\ SemverOK(status[s].version)
                         /\ SemverOK(x.version)
                         /\ LessThan(SemverOf(x.version), SemverOf(status[s].version)))
                      => Same
          IN  cycles'[s] # cycles[s] =>
                  /\ status'[s].version # status[s].version
                        => /\ status'[s].regexMissesContent = 0
                           /\ status'[s].regexMissesVersion = 0
                  /\ last'[s].resp.kind = "body"
                        => Kept(Mon.Service[s], Extractions[cfg][s][last'[s].resp.body])]_vars

\* A seeded Service that had missed a filter has just accepted a new release,
\* which set its counters back to zero.
C32_ResetAfterMiss ==
    \E s \in Services :
        /\ last[s].branch = "new"
        /\ last[s].missesBefore # <<0, 0>>
        /\ status[s].regexMissesContent = 0
        /\ status[s].regexMissesVersion = 0

\* ------------------------------------------------------------------------
\* the properties of the indexed URL commands, for SpecEngine
\* ------------------------------------------------------------------------

\* C33: for every indexed command (split, regex, regex_submatch), every text
\* and every index: with n the length of the list the command computes and i
\* the index, n added to it when it is negative, the command gives element i
\* when 0 <= i < n, and else signals a miss: of class 0 (split) or 2 (regex)
\* when the separator or any match is absent, of class 1 or 3 when i is
\* outside 0..n-1.  It never reads outside the list.
C33_IndexedPick ==
    [][LET Picked(c, texts, none, absent, outside) ==
               LET n == Len(texts)
                   i == IF c.Index < 0 THEN n + c.Index ELSE c.Index
               IN  /\ eng'.pc # "panic"
                   /\ IF n = none
                      THEN \E m \in eng'.miss : m[1] = absent
                      ELSE IF 0 <= i /\ i < n
                      THEN eng'.miss = {} /\ eng'.text = texts[i + 1]
                      ELSE \E m \in eng'.miss : m[1] = outside
           Of(c, text) ==
               CASE c.Type = "split" -> Picked(c, Split(text, c.Text), 1, 0, 1)
                 [] c.Type = "regex" ->
                      Picked(c, FindAllString(Compile(c.Regex), text), 0, 2, 3)
                 [] c.Type = "regex_submatch" ->
                      Picked(c, FindStringSubmatch(Compile(c.Regex), text), 0, 2, 3)
                 [] OTHER -> TRUE
       IN  (eng.pc = "running" /\ eng' # eng) => Of(eng.cmds[eng.k], eng.text)]_vars

\* ------------------------------------------------------------------------
\* the properties of the messages, for Spec
\* ------------------------------------------------------------------------

\* The template with each occurrence of a placeholder, read from the left,
\* replaced by its value; vals is the sequence of pairs of a placeholder and
\* its value.
RECURSIVE Substituted(_, _, _)
Substituted(template, vals, i) ==
    LET At == { k \in 1..Len(vals) : HasPrefixAt(template, vals[k][1], i) }
        Put(k) == vals[k][2] \o Substituted(template, vals, i + Len(vals[k][1]))
    IN  IF i > Len(template) THEN << >>
        ELSE IF At # {} THEN Put(MinOf(At))
        ELSE << template[i] >> \o Substituted(template, vals, i + 1)

\* C34: the text of a chat payload and the message of a push payload that
\* carry a failure message are that message as the webhook sender made it,
\* with nothing substituted; those of a new-release notification are the
\* Service's message override, or the recipient's message if there is none,
\* with every occurrence of ${monitor_id}, ${service_url}, ${service_id} and
\* ${version} replaced by its value.
C34_VerbatimOrSubstituted ==
    \A i \in 1..Len(senders) :
        LET Template(fo, r) ==
                IF fo.kind = "slack"
                THEN (IF Mon.Service[fo.svc].Slack.Message # << >>
                      THEN Mon.Service[fo.svc].Slack.Message ELSE r.Message)
                ELSE (IF Mon.Service[fo.svc].Gotify.Message # << >>
                      THEN Mon.Service[fo.svc].Gotify.Message ELSE r.Message)
            Release(sn, fo, version) ==
                sn.text = Substituted(Template(fo, RecipientOf(sn)),
                                      << <<MonitorIDVar, Mon.ID>>,
                                         <<ServiceURLVar, Mon.Service[fo.svc].URL>>,
                                         <<ServiceIDVar, Mon.Service[fo.svc].ID>>,
                                         <<VersionVar, version>> >>, 1)
            Sent(sn, fo) ==
                (sn.attempts >= 1 /\ fo.kind \in {"slack", "gotify"})
                    => IF fo.owner # 0
                       THEN sn.text = FailMessage(Mon.Service[fo.service].ID, Mon.ID,
                                                  RecipientOf(senders[fo.owner]))
                       ELSE \E resp \in Scenarios[cfg].answers :
                               /\ resp.kind = "body"
                               /\ Release(sn, fo, Bodies[resp.body])
        IN  Sent(senders[i], fanouts[senders[i].fan])

\* A failure message that names a Service whose ID reads ${monitor_id} has
\* been sent to a chat recipient with the ID still in it, and to a push
\* recipient as well.
C34_FailureSentVerbatim ==
    \E i, j \in 1..Len(senders) :
        /\ fanouts[senders[i].fan].owner # 0
        /\ fanouts[senders[i].fan].kind = "slack"
        /\ senders[i].attempts >= 1
        /\ Contains(senders[i].text, MonitorIDVar)
        /\ fanouts[senders[j].fan].owner # 0
        /\ fanouts[senders[j].fan].kind = "gotify"
        /\ senders[j].attempts >= 1
        /\ Contains(senders[j].text, MonitorIDVar)

\* ------------------------------------------------------------------------
\* the properties of the stored version over the life of the process
\* ------------------------------------------------------------------------

\* C35: once a Service has been seeded, status.version is never the empty
\* string again, so that the seed branch is taken at most once per Service,
\* and every later cycle that changes status.version returns true and starts
\* the calls of send.
C35_SeededOnce ==
    [][\A s \in Services :
          status[s].version # << >>
              => /\ status'[s].version # << >>
                 /\ last'[s].branch # "seed"
                 /\ status'[s].version # status[s].version
                       => /\ last'[s].ret = "true"
                          /\ last'[s].launched # << >>]_vars

\* C36: with progressive_versioning on, the versions a Service accepts that
\* parse as semantic versions never go down: a semantic version in
\* status.version is not less than the greatest semantic version stored
\* before it, whatever was accepted in between.
C36_NeverLower ==
    (/\ conf.pc \in {"runs", "exited"}
     /\ Mon.Service[1].ProgressiveVersioning = "y"
     /\ conf.top # << >>
     /\ SemverOK(conf.a.version))
        => SemverCompare(SemverOf(conf.a.version), SemverOf(conf.top)) >= 0

\* ------------------------------------------------------------------------
\* the properties of the skip flags, for Spec
\* ------------------------------------------------------------------------

\* C37: the failure message of a webhook sender that gave up is addressed to
\* every chat and every push recipient of the Monitor, whatever the skip_slack
\* and skip_gotify of the Service whose release started the webhook; the skip
\* flags only keep the calls of send for a new release from being made.  A
\* sender that has not started yet counts for the recipient of its loop pass.
C37_EscalationIgnoresSkips ==
    /\ \A i \in 1..Len(senders) :
          senders[i].pc = "escalated" =>
              \A kind \in {"slack", "gotify"} :
                  \A k \in 0..(Len(Recipients(kind)) - 1) :
                      \E j \in 1..Len(senders) :
                          /\ fanouts[senders[j].fan].owner = i
                          /\ fanouts[senders[j].fan].kind = kind
                          /\ k = IF senders[j].pc = "launched"
                                 THEN senders[j].pass ELSE senders[j].index
    /\ \A f \in 1..Len(fanouts) :
          fanouts[f].owner = 0 =>
              LET svc == Mon.Service[fanouts[f].service]
              IN  /\ fanouts[f].kind = "slack" => ~svc.SkipSlack
                  /\ fanouts[f].kind = "gotify" => ~svc.SkipGotify
                  /\ fanouts[f].kind = "webhook" => ~svc.SkipWebHook

\* ------------------------------------------------------------------------
\* the properties of the extraction-miss mask, for SpecMasks
\* ------------------------------------------------------------------------

\* C38: two runs of the same Service over the same sequence of answers that
\* differ only in the mask they start with give, query by query, the same
\* return value, the same status.version and the same calls of send: the mask
\* bears on the warnings only.
C38_MaskOnlyLogs ==
    conf.pc \in {"runs", "exited"} =>
        /\ conf.outA.ret = conf.outB.ret
        /\ conf.a.version = conf.b.version
        /\ conf.a.regexMissesContent = conf.b.regexMissesContent
        /\ conf.a.regexMissesVersion = conf.b.regexMissesVersion
        /\ conf.outA.sends = conf.outB.sends

\* The two runs have just accepted the same release after a miss that one of
\* them warned about and the other, whose mask has the bit of that class, did
\* not.
C38_WarnedDifferently ==
    /\ conf.pc = "runs"
    /\ conf.a.serviceMisses # conf.b.serviceMisses
    /\ conf.outA.ret = "true"
    /\ conf.outA.sends # << >>
    /\ conf.outA.warned # {}
    /\ conf.outB.warned = {}

====
